---- MODULE Spec2Model ----
(***************************************************************************)
(* A model of the CV extraction repository: the heuristic parsers          *)
(* (cv_parser.py, cv_parser_docling.py), the LLM parsers                    *)
(* (cv_parser_groq.py, cv_parser_llm.py), the schema mapper                 *)
(* (schema_mapper.py), the Markdown renderer (cv_to_markdown.py) and the    *)
(* upload endpoint (web_app.py).                                            *)
(*                                                                         *)
(* Text.  A Python str is modelled as a sequence of atoms.  An atom is a   *)
(* TLA+ string standing for the characters it spells: a word ("Manager"),  *)
(* a run of digits ("2019"), one punctuation mark (",", "-", "(", ":"),    *)
(* one blank (" ") or one line break ("\n").  The str is the concatenation  *)
(* of its atoms (Str), its length the sum of their lengths (StrLen).  The  *)
(* regular expressions and substring tests of the source are evaluated on  *)
(* atoms; what a test needs to know about the inside of an atom (its       *)
(* lower-case form, the keywords it contains, its character class) is      *)
(* tabulated below for the atoms the input documents use.                  *)
(***************************************************************************)
EXTENDS Integers, Sequences, FiniteSets, TLC

VARIABLES
  pdf,        \* the text the PDF backend yields for the document
  cls,        \* the class of each parser object
  full_text,  \* self.full_text of each parser object
  ret,        \* the last call made: [obj, op, exc, val]; a list of skills
              \* or languages is a sequence of atom sequences
  parsed,     \* the records parse() returned, per object, in call order
  pages,      \* the number of pages of the document
  docling,    \* the Docling library: "text" when it converts the document,
              \* "missing" when its import fails, "failing" when it raises
  page_count, \* self.page_count of each parser object
  actually_used_parser,  \* self.actually_used_parser of each parser object
  reply,      \* the outcome of the last LLM request
  req,        \* the upload requests: what each sent, where its handler
              \* stands, the locals of the handler, its response
  uploads,    \* the files of the upload folder, by name
  results     \* the files of the results folder, by name

vars ==
  <<pdf, cls, full_text, ret, parsed, pages, docling, page_count,
    actually_used_parser, reply, req, uploads, results>>

Parsers == {1, 2}

\* Bound on the number of parse() calls recorded.
MaxParses == 2

-----------------------------------------------------------------------------
(* Atoms and strings *)

SP == " "
NL == "\n"

RECURSIVE Str(_)
Str(s) == IF s = <<>> THEN "" ELSE s[1] \o Str(Tail(s))

RECURSIVE StrLen(_)
StrLen(s) ==
  IF s = <<>> THEN 0
  ELSE IF Len(s) = 1 THEN Len(s[1])
  ELSE LET h == Len(s) \div 2
       IN StrLen(SubSeq(s, 1, h)) + StrLen(SubSeq(s, h + 1, Len(s)))

\* str.lower() of one atom, for the atoms that hold an upper-case letter.
LowerMap ==
  ("ADDITIONAL" :> "additional") @@ ("Acme" :> "acme") @@
  ("Ankara" :> "ankara") @@ ("Audit" :> "audit") @@ ("Avon" :> "avon") @@
  ("B2" :> "b2") @@ ("Bachelor" :> "bachelor") @@ ("Bogazici" :> "bogazici") @@
  ("Budget" :> "budget") @@ ("Built" :> "built") @@
  ("Certification" :> "certification") @@
  ("Certifications" :> "certifications") @@ ("Certified" :> "certified") @@
  ("Coca" :> "coca") @@ ("Cola" :> "cola") @@ ("Contact" :> "contact") @@
  ("Core" :> "core") @@ ("Cosmetics" :> "cosmetics") @@ ("Data" :> "data") @@
  ("Doe" :> "doe") @@ ("EDUCATION" :> "education") @@
  ("EXPERIENCE" :> "experience") @@ ("Education" :> "education") @@
  ("Engineer" :> "engineer") @@ ("English" :> "english") @@
  ("Finance" :> "finance") @@ ("Fluent" :> "fluent") @@ ("Full" :> "full") @@
  ("German" :> "german") @@ ("Governance" :> "governance") @@
  ("INFORMATION" :> "information") @@ ("ISTANBUL" :> "istanbul") @@
  ("IT" :> "it") @@ ("Icecek" :> "icecek") @@ ("Inc" :> "inc") @@
  ("Istanbul" :> "istanbul") @@ ("Jane" :> "jane") @@ ("Java" :> "java") @@
  ("John" :> "john") @@ ("June" :> "june") @@ ("KOSE" :> "kose") @@
  ("LANGUAGES" :> "languages") @@ ("Languages" :> "languages") @@
  ("Leader" :> "leader") @@ ("Leadership" :> "leadership") @@
  ("Manager" :> "manager") @@ ("March" :> "march") @@ ("Merve" :> "merve") @@
  ("Michael" :> "michael") @@ ("Mobile" :> "mobile") @@ ("Name" :> "name") @@
  ("Native" :> "native") @@ ("Owner" :> "owner") @@ ("PDF" :> "pdf") @@
  ("PMP" :> "pmp") @@
  ("PYTHON" :> "python") @@ ("Page" :> "page") @@ ("Present" :> "present") @@
  ("Product" :> "product") @@ ("Python" :> "python") @@ ("SQL" :> "sql") @@
  ("Science" :> "science") @@ ("Senior" :> "senior") @@ ("Skill" :> "skill") @@
  ("Skills" :> "skills") @@ ("Smith" :> "smith") @@ ("Summary" :> "summary") @@
  ("TBD" :> "tbd") @@ ("TURKEY" :> "turkey") @@ ("Team" :> "team") @@
  ("Top" :> "top") @@ ("Turkey" :> "turkey") @@ ("Turkish" :> "turkish") @@
  ("University" :> "university") @@ ("YILDIZ" :> "yildiz")

Lower(a) == IF a \in DOMAIN LowerMap THEN LowerMap[a] ELSE a

LowerSeq(s) == [k \in 1..Len(s) |-> Lower(s[k])]

\* <<n, a>>: the keyword n occurs inside the atom a without being all of it,
\* at its start (PrefixOf), at its end (SuffixOf) or in between (MidOf).
PrefixOf ==
  { <<"1", "10">>, <<"1", "11">>, <<"1", "12">>, <<"1", "13">>,
    <<"1", "14">>, <<"1", "15">>, <<"1", "16">>, <<"1", "17">>,
    <<"1", "18">>, <<"1", "19">>, <<"2", "20">>, <<"2", "2015">>,
    <<"2", "2019">>, <<"2", "2021">>, <<"2", "21">>, <<"2", "22">>,
    <<"2", "23">>, <<"2", "24">>, <<"2", "25">>, <<"2", "26">>,
    <<"2", "27">>, <<"2", "28">>, <<"2", "29">>, <<"20", "2015">>,
    <<"20", "2019">>, <<"20", "2021">>, <<"3", "30">>, <<"4", "415">>,
    <<"5", "555">>, <<"9", "905322437822">>,
    <<"Certification", "Certifications">>, <<"Skill", "Skills">>,
    <<"certification", "certifications">>, <<"com", "company">>,
    <<"go", "governance">>, <<"in", "inc">>, <<"in", "information">>,
    <<"jane", "janedoe">>, <<"language", "languages">>,
    <<"lead", "leadership">>, <<"leader", "leadership">>,
    <<"month", "months">>, <<"player", "players">>, <<"skill", "skills">>,
    <<"year", "years">> }

SuffixOf ==
  { <<"1", "11">>, <<"1", "2021">>, <<"1", "21">>, <<"15", "2015">>,
    <<"15", "415">>, <<"19", "2019">>, <<"2", "12">>, <<"2", "22">>,
    <<"2", "905322437822">>, <<"2", "B2">>, <<"2", "b2">>,
    <<"21", "2021">>, <<"22", "905322437822">>, <<"3", "13">>,
    <<"3", "23">>, <<"4", "14">>, <<"4", "24">>, <<"5", "15">>,
    <<"5", "2015">>, <<"5", "25">>, <<"5", "415">>, <<"5", "555">>,
    <<"6", "16">>, <<"6", "26">>, <<"7", "17">>, <<"7", "27">>,
    <<"8", "18">>, <<"8", "28">>, <<"9", "19">>, <<"9", "2019">>,
    <<"9", "29">>, <<"doe", "janedoe">>, <<"in", "linkedin">>,
    <<"it", "Audit">>, <<"it", "audit">> }

MidOf ==
  { <<"1", "0100">>, <<"1", "2015">>, <<"1", "2019">>, <<"1", "415">>,
    <<"10", "0100">>, <<"24", "905322437822">>, <<"3", "905322437822">>,
    <<"4", "905322437822">>, <<"5", "905322437822">>,
    <<"7", "905322437822">>, <<"8", "905322437822">>,
    <<"IT", "ADDITIONAL">>, <<"for", "information">>, <<"in", "Engineer">>,
    <<"in", "Finance">>, <<"in", "engineer">>, <<"in", "finance">>,
    <<"in", "planning">>, <<"in", "reporting">>, <<"in", "string">>,
    <<"it", "Smith">>, <<"it", "University">>, <<"it", "additional">>,
    <<"it", "position">>, <<"it", "responsibilities">>, <<"it", "smith">>,
    <<"it", "title">>, <<"it", "university">>, <<"it", "with">> }

HasPrefix(a, n) == a = n \/ <<n, a>> \in PrefixOf
HasSuffix(a, n) == a = n \/ <<n, a>> \in SuffixOf
Contains(a, n) == a = n \/ <<n, a>> \in (PrefixOf \cup SuffixOf \cup MidOf)

\* The piece k of the keyword n (a sequence of atoms) lies on the atom a.
PieceAt(n, k, a) ==
  IF Len(n) = 1 THEN Contains(a, n[1])
  ELSE IF k = 1 THEN HasSuffix(a, n[1])
  ELSE IF k = Len(n) THEN HasPrefix(a, n[k])
  ELSE a = n[k]

\* Python's `n in s` for a keyword n and a str s.
Occurs(n, s) ==
  \E p \in 1..(Len(s) - Len(n) + 1) :
    \A k \in 1..Len(n) : PieceAt(n, k, s[p + k - 1])

\* any(n in s for n in needles)
AnyIn(needles, s) == \E n \in needles : Occurs(n, s)

\* s.count(c) for a one-character atom c
RECURSIVE Count(_, _)
Count(s, c) ==
  IF s = <<>> THEN 0 ELSE (IF s[1] = c THEN 1 ELSE 0) + Count(Tail(s), c)

IsSpace(a) == a \in {SP, NL}

\* s.strip()
RECURSIVE LStrip(_)
LStrip(s) == IF s # <<>> /\ IsSpace(s[1]) THEN LStrip(Tail(s)) ELSE s

RECURSIVE RStrip(_)
RStrip(s) ==
  IF s # <<>> /\ IsSpace(s[Len(s)]) THEN RStrip(SubSeq(s, 1, Len(s) - 1)) ELSE s

Strip(s) == RStrip(LStrip(s))

\* The smallest element of a non-empty set of integers.
Min(S) == CHOOSE x \in S : \A y \in S : x <= y

\* s.split(sep) for one-character separators: the pieces between their
\* occurrences, the empty ones kept; `at` holds the places of the
\* separators, in their order.
Split(s, sep) ==
  LET at == SelectSeq([k \in 1..Len(s) |-> k], LAMBDA k : s[k] \in sep)
  IN [i \in 1..(Len(at) + 1) |->
        SubSeq(s, IF i = 1 THEN 1 ELSE at[i - 1] + 1,
                  IF i > Len(at) THEN Len(s) ELSE at[i] - 1)]

\* text.split('\n')
SplitLines(text) == Split(text, {NL})

\* '\n'.join(lines)
RECURSIVE JoinLines(_)
JoinLines(ls) ==
  IF ls = <<>> THEN <<>>
  ELSE IF Len(ls) = 1 THEN ls[1]
  ELSE ls[1] \o <<NL>> \o JoinLines(Tail(ls))

\* The first index at or after k whose atom is not white space (Len(s) + 1
\* when there is none): where \s* stops.
RECURSIVE SkipSp(_, _)
SkipSp(s, k) == IF k <= Len(s) /\ IsSpace(s[k]) THEN SkipSp(s, k + 1) ELSE k

-----------------------------------------------------------------------------
(* Character classes of atoms *)

\* [A-Z][a-z]+ : one capital, then lower-case letters.
CapLower ==
  { "Acme", "Ankara", "Audit", "Avon", "Bachelor", "Bogazici", "Budget",
    "Built", "Certification", "Certifications", "Certified", "Coca",
    "Cola", "Contact", "Core", "Cosmetics", "Data", "Doe", "Education",
    "Engineer", "English", "Finance", "Fluent", "Full", "German",
    "Governance", "Icecek", "Inc", "Istanbul", "Jane", "Java", "John",
    "June", "Languages", "Leadership", "Manager", "March", "Merve",
    "Michael", "Mobile", "Name", "Native", "Owner", "Page", "Present",
    "Product", "Python", "Science", "Senior", "Skill", "Skills", "Smith",
    "Summary", "Team", "Top", "Turkey", "Turkish", "University" }

\* Letters only, two or more: what [A-Z][a-z]+ matches under re.IGNORECASE.
Alpha ==
  { "ADDITIONAL", "Acme", "Ankara", "Audit", "Avon", "Bachelor",
    "Bogazici", "Budget", "Built", "Certification", "Certifications",
    "Certified", "Coca", "Cola", "Contact", "Core", "Cosmetics", "Data",
    "Doe", "EDUCATION", "EXPERIENCE", "Education", "Engineer", "English",
    "Finance", "Fluent", "Full", "German", "Governance", "INFORMATION",
    "ISTANBUL", "IT", "Icecek", "Inc", "Istanbul", "Jane", "Java", "John",
    "June", "KOSE", "LANGUAGES", "Languages", "Leadership", "Manager",
    "March", "Merve", "Michael", "Mobile", "Name", "Native", "Owner",
    "PMP", "PYTHON", "Page", "Present", "Product", "Python", "SQL",
    "Science", "Senior", "Skill", "Skills", "Smith", "Summary", "TBD",
    "TURKEY", "Team", "Top", "Turkey", "Turkish", "University", "YILDIZ",
    "acme", "additional", "analysis", "and", "ankara", "array", "audit",
    "avon", "bachelor", "bogazici", "boolean", "budget", "built",
    "certification", "certifications", "certified", "coca", "cola", "com",
    "company", "contact", "core", "cosmetics", "data", "degree", "doe",
    "education", "email", "engineer", "english", "example", "experience",
    "finance", "fluent", "full", "german", "governance", "icecek", "in",
    "inc", "information", "istanbul", "it", "jane", "janedoe", "java",
    "job", "john", "june", "kose", "languages", "leadership", "likes",
    "linkedin", "location", "manager", "march", "merve", "michael",
    "mobile", "months", "name", "native", "number", "of", "owner", "page",
    "period", "phone", "planning", "player", "players", "pmp", "position",
    "present", "product", "python", "reporting", "responsibilities",
    "science", "senior", "skill", "skills", "smith", "sql", "string",
    "summary", "tbd", "team", "the", "title", "tools", "top", "turkey",
    "turkish", "university", "with", "www", "years", "yildiz" }

\* \d{4}
Year4 ==
  { "0100", "2015", "2019", "2021" }

\* Atoms in which 20\d{2} matches.
Has20xx ==
  { "2015", "2019", "2021" }

\* The numbers of the items of the long lists of the documents.
ToolNumbers == 1..30

\* [0-9]+
Digits ==
  { "0100", "1", "10", "11", "12", "13", "14", "15", "16", "17", "18",
    "19", "2", "20", "2015", "2019", "2021", "21", "22", "23", "24", "25",
    "26", "27", "28", "29", "3", "30", "4", "415", "5", "555", "6", "7",
    "8", "9", "905322437822" }

\* \w+ : letters, digits, underscore.
WordAtom ==
  { "0100", "1", "10", "11", "12", "13", "14", "15", "16", "17", "18",
    "19", "2", "20", "2015", "2019", "2021", "21", "22", "23", "24", "25",
    "26", "27", "28", "29", "3", "30", "4", "415", "5", "555", "6", "7",
    "8", "9", "905322437822", "ADDITIONAL", "Acme", "Ankara", "Audit",
    "Avon", "B2", "Bachelor", "Bogazici", "Budget", "Built",
    "Certification", "Certifications", "Certified", "Coca", "Cola",
    "Contact", "Core", "Cosmetics", "Data", "Doe", "EDUCATION",
    "EXPERIENCE", "Education", "Engineer", "English", "Finance", "Fluent",
    "Full", "German", "Governance", "INFORMATION", "ISTANBUL", "IT",
    "Icecek", "Inc", "Istanbul", "Jane", "Java", "John", "June", "KOSE",
    "LANGUAGES", "Languages", "Leadership", "Manager", "March", "Merve",
    "Michael", "Mobile", "Name", "Native", "Owner", "PMP", "PYTHON",
    "Page", "Present", "Product", "Python", "SQL", "Science", "Senior",
    "Skill", "Skills", "Smith", "Summary", "TBD", "TURKEY", "Team", "Top",
    "Turkey", "Turkish", "University", "YILDIZ", "acme", "additional",
    "analysis", "and", "ankara", "array", "audit", "avon", "b2",
    "bachelor", "bogazici", "boolean", "budget", "built", "certification",
    "certifications", "certified", "coca", "cola", "com", "company",
    "contact", "core", "cosmetics", "data", "degree", "doe", "education",
    "email", "engineer", "english", "example", "experience", "finance",
    "fluent", "full", "german", "governance", "icecek", "in", "inc",
    "information", "istanbul", "it", "jane", "janedoe", "java", "job",
    "john", "june", "kose", "languages", "leadership", "likes", "linkedin",
    "location", "manager", "march", "merve", "michael", "mobile", "months",
    "name", "native", "number", "of", "owner", "page", "period", "phone",
    "planning", "player", "players", "pmp", "position", "present",
    "product", "python", "reporting", "responsibilities", "science",
    "senior", "skill", "skills", "smith", "sql", "string", "summary",
    "tbd", "team", "the", "title", "tools", "top", "turkey", "turkish",
    "university", "with", "www", "years", "yildiz" }

\* [A-Z]+ : capitals only.
Upper ==
  { "ADDITIONAL", "EDUCATION", "EXPERIENCE", "INFORMATION", "ISTANBUL",
    "IT", "KOSE", "LANGUAGES", "PMP", "PYTHON", "SQL", "TBD", "TURKEY",
    "YILDIZ" }

\* Atoms whose first character is a capital: a[0].isupper()
UpperStart ==
  { "ADDITIONAL", "Acme", "Ankara", "Audit", "Avon", "B2", "Bachelor",
    "Bogazici", "Budget", "Built", "Certification", "Certifications",
    "Certified", "Coca", "Cola", "Contact", "Core", "Cosmetics", "Data",
    "Doe", "EDUCATION", "EXPERIENCE", "Education", "Engineer", "English",
    "Finance", "Fluent", "Full", "German", "Governance", "INFORMATION",
    "ISTANBUL", "IT", "Icecek", "Inc", "Istanbul", "Jane", "Java", "John",
    "June", "KOSE", "LANGUAGES", "Languages", "Leadership", "Manager",
    "March", "Merve", "Michael", "Mobile", "Name", "Native", "Owner",
    "PMP", "PYTHON", "Page", "Present", "Product", "Python", "SQL",
    "Science", "Senior", "Skill", "Skills", "Smith", "Summary", "TBD",
    "TURKEY", "Team", "Top", "Turkey", "Turkish", "University", "YILDIZ" }

\* Atoms that hold a lower-case letter.
HasLower ==
  { "Acme", "Ankara", "Audit", "Avon", "Bachelor", "Bogazici", "Budget",
    "Built", "Certification", "Certifications", "Certified", "Coca",
    "Cola", "Contact", "Core", "Cosmetics", "Data", "Doe", "Education",
    "Engineer", "English", "Finance", "Fluent", "Full", "German",
    "Governance", "Icecek", "Inc", "Istanbul", "Jane", "Java", "John",
    "June", "Languages", "Leadership", "Manager", "March", "Merve",
    "Michael", "Mobile", "Name", "Native", "Owner", "Page", "Present",
    "Product", "Python", "Science", "Senior", "Skill", "Skills", "Smith",
    "Summary", "Team", "Top", "Turkey", "Turkish", "University", "acme",
    "additional", "analysis", "and", "ankara", "array", "audit", "avon",
    "b2", "bachelor", "bogazici", "boolean", "budget", "built",
    "certification", "certifications", "certified", "coca", "cola", "com",
    "company", "contact", "core", "cosmetics", "data", "degree", "doe",
    "education", "email", "engineer", "english", "example", "experience",
    "finance", "fluent", "full", "german", "governance", "icecek", "in",
    "inc", "information", "istanbul", "it", "jane", "janedoe", "java",
    "job", "john", "june", "kose", "languages", "leadership", "likes",
    "linkedin", "location", "manager", "march", "merve", "michael",
    "mobile", "months", "name", "native", "number", "of", "owner", "page",
    "period", "phone", "planning", "player", "players", "pmp", "position",
    "present", "product", "python", "reporting", "responsibilities",
    "science", "senior", "skill", "skills", "smith", "sql", "string",
    "summary", "tbd", "team", "the", "title", "tools", "top", "turkey",
    "turkish", "university", "with", "www", "years", "yildiz" }

\* Atoms that end with two capitals, and that begin with two.
Caps2End ==
  { "ADDITIONAL", "EDUCATION", "EXPERIENCE", "INFORMATION", "ISTANBUL",
    "IT", "KOSE", "LANGUAGES", "PMP", "PYTHON", "SQL", "TBD", "TURKEY",
    "YILDIZ" }

Caps2Start ==
  { "ADDITIONAL", "EDUCATION", "EXPERIENCE", "INFORMATION", "ISTANBUL",
    "IT", "KOSE", "LANGUAGES", "PMP", "PYTHON", "SQL", "TBD", "TURKEY",
    "YILDIZ" }

\* Atoms that end with [A-Z][a-z]+, and that begin with [A-Z][a-z].
CapLowEnd ==
  { "Acme", "Ankara", "Audit", "Avon", "Bachelor", "Bogazici", "Budget",
    "Built", "Certification", "Certifications", "Certified", "Coca",
    "Cola", "Contact", "Core", "Cosmetics", "Data", "Doe", "Education",
    "Engineer", "English", "Finance", "Fluent", "Full", "German",
    "Governance", "Icecek", "Inc", "Istanbul", "Jane", "Java", "John",
    "June", "Languages", "Leadership", "Manager", "March", "Merve",
    "Michael", "Mobile", "Name", "Native", "Owner", "Page", "Present",
    "Product", "Python", "Science", "Senior", "Skill", "Skills", "Smith",
    "Summary", "Team", "Top", "Turkey", "Turkish", "University" }

CapLowStart ==
  { "Acme", "Ankara", "Audit", "Avon", "Bachelor", "Bogazici", "Budget",
    "Built", "Certification", "Certifications", "Certified", "Coca",
    "Cola", "Contact", "Core", "Cosmetics", "Data", "Doe", "Education",
    "Engineer", "English", "Finance", "Fluent", "Full", "German",
    "Governance", "Icecek", "Inc", "Istanbul", "Jane", "Java", "John",
    "June", "Languages", "Leadership", "Manager", "March", "Merve",
    "Michael", "Mobile", "Name", "Native", "Owner", "Page", "Present",
    "Product", "Python", "Science", "Senior", "Skill", "Skills", "Smith",
    "Summary", "Team", "Top", "Turkey", "Turkish", "University" }

\* Atoms of [A-Z][A-Za-z]+.
CapWord ==
  { "ADDITIONAL", "Acme", "Ankara", "Audit", "Avon", "Bachelor",
    "Bogazici", "Budget", "Built", "Certification", "Certifications",
    "Certified", "Coca", "Cola", "Contact", "Core", "Cosmetics", "Data",
    "Doe", "EDUCATION", "EXPERIENCE", "Education", "Engineer", "English",
    "Finance", "Fluent", "Full", "German", "Governance", "INFORMATION",
    "ISTANBUL", "IT", "Icecek", "Inc", "Istanbul", "Jane", "Java", "John",
    "June", "KOSE", "LANGUAGES", "Languages", "Leadership", "Manager",
    "March", "Merve", "Michael", "Mobile", "Name", "Native", "Owner",
    "PMP", "PYTHON", "Page", "Present", "Product", "Python", "SQL",
    "Science", "Senior", "Skill", "Skills", "Smith", "Summary", "TBD",
    "TURKEY", "Team", "Top", "Turkey", "Turkish", "University", "YILDIZ" }

\* Atoms that hold four digits in a row: re.search(r'\d{4}', a).
FourDigits ==
  { "0100", "2015", "2019", "2021", "905322437822" }

\* Atoms of [a-z]+[a-z0-9]*.
LowerWord ==
  { "acme", "additional", "analysis", "and", "ankara", "array", "audit",
    "avon", "b2", "bachelor", "bogazici", "boolean", "budget", "built",
    "certification", "certifications", "certified", "coca", "cola", "com",
    "company", "contact", "core", "cosmetics", "data", "degree", "doe",
    "education", "email", "engineer", "english", "example", "experience",
    "finance", "fluent", "full", "german", "governance", "icecek", "in",
    "inc", "information", "istanbul", "it", "jane", "janedoe", "java",
    "job", "john", "june", "kose", "languages", "leadership", "likes",
    "linkedin", "location", "manager", "march", "merve", "michael",
    "mobile", "months", "name", "native", "number", "of", "owner", "page",
    "period", "phone", "planning", "player", "players", "pmp", "position",
    "present", "product", "python", "reporting", "responsibilities",
    "science", "senior", "skill", "skills", "smith", "sql", "string",
    "summary", "tbd", "team", "the", "title", "tools", "top", "turkey",
    "turkish", "university", "with", "www", "years", "yildiz" }

\* Atoms of [A-Za-z]+.
Letters ==
  { "ADDITIONAL", "Acme", "Ankara", "Audit", "Avon", "Bachelor",
    "Bogazici", "Budget", "Built", "Certification", "Certifications",
    "Certified", "Coca", "Cola", "Contact", "Core", "Cosmetics", "Data",
    "Doe", "EDUCATION", "EXPERIENCE", "Education", "Engineer", "English",
    "Finance", "Fluent", "Full", "German", "Governance", "INFORMATION",
    "ISTANBUL", "IT", "Icecek", "Inc", "Istanbul", "Jane", "Java", "John",
    "June", "KOSE", "LANGUAGES", "Languages", "Leadership", "Manager",
    "March", "Merve", "Michael", "Mobile", "Name", "Native", "Owner",
    "PMP", "PYTHON", "Page", "Present", "Product", "Python", "SQL",
    "Science", "Senior", "Skill", "Skills", "Smith", "Summary", "TBD",
    "TURKEY", "Team", "Top", "Turkey", "Turkish", "University", "YILDIZ",
    "acme", "additional", "analysis", "and", "ankara", "array", "audit",
    "avon", "bachelor", "bogazici", "boolean", "budget", "built",
    "certification", "certifications", "certified", "coca", "cola", "com",
    "company", "contact", "core", "cosmetics", "data", "degree", "doe",
    "education", "email", "engineer", "english", "example", "experience",
    "finance", "fluent", "full", "german", "governance", "icecek", "in",
    "inc", "information", "istanbul", "it", "jane", "janedoe", "java",
    "job", "john", "june", "kose", "languages", "leadership", "likes",
    "linkedin", "location", "manager", "march", "merve", "michael",
    "mobile", "months", "name", "native", "number", "of", "owner", "page",
    "period", "phone", "planning", "player", "players", "pmp", "position",
    "present", "product", "python", "reporting", "responsibilities",
    "science", "senior", "skill", "skills", "smith", "sql", "string",
    "summary", "tbd", "team", "the", "title", "tools", "top", "turkey",
    "turkish", "university", "with", "www", "years", "yildiz" }

\* Atoms of [A-Za-z0-9._%+-]+ and of [A-Za-z0-9.-]+: the two sides of an
\* e-mail address.
EmailLocalAtom ==
  { "+", "-", ".", "0100", "1", "10", "11", "12", "13", "14", "15", "16",
    "17", "18", "19", "2", "20", "2015", "2019", "2021", "21", "22", "23",
    "24", "25", "26", "27", "28", "29", "3", "30", "4", "415", "5", "555",
    "6", "7", "8", "9", "905322437822", "ADDITIONAL", "Acme", "Ankara",
    "Audit", "Avon", "B2", "Bachelor", "Bogazici", "Budget", "Built",
    "Certification", "Certifications", "Certified", "Coca", "Cola",
    "Contact", "Core", "Cosmetics", "Data", "Doe", "EDUCATION",
    "EXPERIENCE", "Education", "Engineer", "English", "Finance", "Fluent",
    "Full", "German", "Governance", "INFORMATION", "ISTANBUL", "IT",
    "Icecek", "Inc", "Istanbul", "Jane", "Java", "John", "June", "KOSE",
    "LANGUAGES", "Languages", "Leadership", "Manager", "March", "Merve",
    "Michael", "Mobile", "Name", "Native", "Owner", "PMP", "PYTHON",
    "Page", "Present", "Product", "Python", "SQL", "Science", "Senior",
    "Skill", "Skills", "Smith", "Summary", "TBD", "TURKEY", "Team", "Top",
    "Turkey", "Turkish", "University", "YILDIZ", "acme", "additional",
    "analysis", "and", "ankara", "array", "audit", "avon", "b2",
    "bachelor", "bogazici", "boolean", "budget", "built", "certification",
    "certifications", "certified", "coca", "cola", "com", "company",
    "contact", "core", "cosmetics", "data", "degree", "doe", "education",
    "email", "engineer", "english", "example", "experience", "finance",
    "fluent", "full", "german", "governance", "icecek", "in", "inc",
    "information", "istanbul", "it", "jane", "janedoe", "java", "job",
    "john", "june", "kose", "languages", "leadership", "likes", "linkedin",
    "location", "manager", "march", "merve", "michael", "mobile", "months",
    "name", "native", "number", "of", "owner", "page", "period", "phone",
    "planning", "player", "players", "pmp", "position", "present",
    "product", "python", "reporting", "responsibilities", "science",
    "senior", "skill", "skills", "smith", "sql", "string", "summary",
    "tbd", "team", "the", "title", "tools", "top", "turkey", "turkish",
    "university", "with", "www", "years", "yildiz" }

EmailDomainAtom ==
  { "-", ".", "0100", "1", "10", "11", "12", "13", "14", "15", "16", "17",
    "18", "19", "2", "20", "2015", "2019", "2021", "21", "22", "23", "24",
    "25", "26", "27", "28", "29", "3", "30", "4", "415", "5", "555", "6",
    "7", "8", "9", "905322437822", "ADDITIONAL", "Acme", "Ankara", "Audit",
    "Avon", "B2", "Bachelor", "Bogazici", "Budget", "Built",
    "Certification", "Certifications", "Certified", "Coca", "Cola",
    "Contact", "Core", "Cosmetics", "Data", "Doe", "EDUCATION",
    "EXPERIENCE", "Education", "Engineer", "English", "Finance", "Fluent",
    "Full", "German", "Governance", "INFORMATION", "ISTANBUL", "IT",
    "Icecek", "Inc", "Istanbul", "Jane", "Java", "John", "June", "KOSE",
    "LANGUAGES", "Languages", "Leadership", "Manager", "March", "Merve",
    "Michael", "Mobile", "Name", "Native", "Owner", "PMP", "PYTHON",
    "Page", "Present", "Product", "Python", "SQL", "Science", "Senior",
    "Skill", "Skills", "Smith", "Summary", "TBD", "TURKEY", "Team", "Top",
    "Turkey", "Turkish", "University", "YILDIZ", "acme", "additional",
    "analysis", "and", "ankara", "array", "audit", "avon", "b2",
    "bachelor", "bogazici", "boolean", "budget", "built", "certification",
    "certifications", "certified", "coca", "cola", "com", "company",
    "contact", "core", "cosmetics", "data", "degree", "doe", "education",
    "email", "engineer", "english", "example", "experience", "finance",
    "fluent", "full", "german", "governance", "icecek", "in", "inc",
    "information", "istanbul", "it", "jane", "janedoe", "java", "job",
    "john", "june", "kose", "languages", "leadership", "likes", "linkedin",
    "location", "manager", "march", "merve", "michael", "mobile", "months",
    "name", "native", "number", "of", "owner", "page", "period", "phone",
    "planning", "player", "players", "pmp", "position", "present",
    "product", "python", "reporting", "responsibilities", "science",
    "senior", "skill", "skills", "smith", "sql", "string", "summary",
    "tbd", "team", "the", "title", "tools", "top", "turkey", "turkish",
    "university", "with", "www", "years", "yildiz" }

\* The characters of the atoms that hold a digit: each digit by itself, the
\* other characters in runs.
DigitUnits ==
  ("0100" :> <<"0", "1", "0", "0">>) @@ ("1" :> <<"1">>) @@
  ("10" :> <<"1", "0">>) @@ ("11" :> <<"1", "1">>) @@ ("12" :> <<"1", "2">>) @@
  ("13" :> <<"1", "3">>) @@ ("14" :> <<"1", "4">>) @@ ("15" :> <<"1", "5">>) @@
  ("16" :> <<"1", "6">>) @@ ("17" :> <<"1", "7">>) @@ ("18" :> <<"1", "8">>) @@
  ("19" :> <<"1", "9">>) @@ ("2" :> <<"2">>) @@ ("20" :> <<"2", "0">>) @@
  ("2015" :> <<"2", "0", "1", "5">>) @@ ("2019" :> <<"2", "0", "1", "9">>) @@
  ("2021" :> <<"2", "0", "2", "1">>) @@ ("21" :> <<"2", "1">>) @@
  ("22" :> <<"2", "2">>) @@ ("23" :> <<"2", "3">>) @@ ("24" :> <<"2", "4">>) @@
  ("25" :> <<"2", "5">>) @@ ("26" :> <<"2", "6">>) @@ ("27" :> <<"2", "7">>) @@
  ("28" :> <<"2", "8">>) @@ ("29" :> <<"2", "9">>) @@ ("3" :> <<"3">>) @@
  ("30" :> <<"3", "0">>) @@ ("4" :> <<"4">>) @@ ("415" :> <<"4", "1", "5">>) @@
  ("5" :> <<"5">>) @@ ("555" :> <<"5", "5", "5">>) @@ ("6" :> <<"6">>) @@
  ("7" :> <<"7">>) @@ ("8" :> <<"8">>) @@ ("9" :> <<"9">>) @@
  ("905322437822" :> <<"9", "0", "5", "3", "2", "2", "4", "3", "7", "8", "2", "2">>) @@
  ("B2" :> <<"B", "2">>) @@ ("b2" :> <<"b", "2">>)

\* Atoms whose first character is a letter.
LetterStart ==
  { "ADDITIONAL", "Acme", "Ankara", "Audit", "Avon", "B2", "Bachelor",
    "Bogazici", "Budget", "Built", "Certification", "Certifications",
    "Certified", "Coca", "Cola", "Contact", "Core", "Cosmetics", "Data",
    "Doe", "EDUCATION", "EXPERIENCE", "Education", "Engineer", "English",
    "Finance", "Fluent", "Full", "German", "Governance", "INFORMATION",
    "ISTANBUL", "IT", "Icecek", "Inc", "Istanbul", "Jane", "Java", "John",
    "June", "KOSE", "LANGUAGES", "Languages", "Leadership", "Manager",
    "March", "Merve", "Michael", "Mobile", "Name", "Native", "Owner",
    "PMP", "PYTHON", "Page", "Present", "Product", "Python", "SQL",
    "Science", "Senior", "Skill", "Skills", "Smith", "Summary", "TBD",
    "TURKEY", "Team", "Top", "Turkey", "Turkish", "University", "YILDIZ",
    "acme", "additional", "analysis", "and", "ankara", "array", "audit",
    "avon", "b2", "bachelor", "bogazici", "boolean", "budget", "built",
    "certification", "certifications", "certified", "coca", "cola", "com",
    "company", "contact", "core", "cosmetics", "data", "degree", "doe",
    "education", "email", "engineer", "english", "example", "experience",
    "finance", "fluent", "full", "german", "governance", "icecek", "in",
    "inc", "information", "istanbul", "it", "jane", "janedoe", "java",
    "job", "john", "june", "kose", "languages", "leadership", "likes",
    "linkedin", "location", "manager", "march", "merve", "michael",
    "mobile", "months", "name", "native", "number", "of", "owner", "page",
    "period", "phone", "planning", "player", "players", "pmp", "position",
    "present", "product", "python", "reporting", "responsibilities",
    "science", "senior", "skill", "skills", "smith", "sql", "string",
    "summary", "tbd", "team", "the", "title", "tools", "top", "turkey",
    "turkish", "university", "with", "www", "years", "yildiz" }

-----------------------------------------------------------------------------
(* CVParser.extract_experience: the whole-document scan *)

company_keywords ==
  { <<"Tobacco">>, <<"Cosmetics">>, <<"Coca", "-", "Cola">>, <<"IBM">>,
    <<"Bottlers">>, <<"Icecek">>, <<"Avon">>, <<"British", SP, "American">>,
    <<"BAT">>, <<"CCI">>, <<"Turkey">> }

skip_words ==
  { <<"certification">>, <<"university">>, <<"degree">>, <<"page", SP>>,
    <<"skills", ":">>, <<"languages", ":">>, <<"toeic">>, <<"itil">>,
    <<"delf">>, <<"dalf">>, <<"pmp">>, <<"iso", SP, "27001">>,
    <<"iso", SP, "22001">>, <<"honors">>, <<"lycée">>, <<"bachelor">>,
    <<"for", SP, "turkey">>, <<"participated", ":">>, <<"markets", ":">>,
    <<"owner", ",">> }

\* The role keywords of the company lookahead (line 475), lower-cased: the
\* search is case-insensitive.
lookahead_roles ==
  { <<"manager">>, <<"analyst">>, <<"lead">>, <<"specialist">>,
    <<"director">>, <<"intern">>, <<"coordinator">>, <<"engineer">>,
    <<"developer">>, <<"owner">>, <<"officer">>, <<"tester">>,
    <<"performer">>, <<"solutions">> }

\* The role keywords of the orphan test (line 505).
orphan_roles ==
  { <<"manager">>, <<"analyst">>, <<"lead">>, <<"specialist">>,
    <<"director">>, <<"intern">>, <<"coordinator">>, <<"engineer">>,
    <<"developer">>, <<"officer">>, <<"solutions">> }

project_words ==
  { <<"project">>, <<"implementation">>, <<"upgrade">>, <<"module">>,
    <<"baseline">> }

\* The lookahead windows: `j < i + 15` (line 438) and `j < i + 5` (line 514).
CompanyWindow == 15
OrphanWindow == 5

\* re.match(r'^[A-Z][a-z]+,\s*[A-Z][a-z]+$', line)
IsCityCountry(line) ==
  /\ Len(line) >= 3
  /\ line[1] \in CapLower
  /\ line[2] = ","
  /\ SkipSp(line, 3) = Len(line)
  /\ line[Len(line)] \in CapLower

\* re.search(r'\([12]\d{3}\)', line)
HasParenYear(line) ==
  \E p \in 1..(Len(line) - 2) :
    line[p] = "(" /\ line[p + 1] \in Year4 /\ line[p + 2] = ")"

\* re.search(r'&\s+\w+', line)
HasAmpWord(line) ==
  \E p \in 1..(Len(line) - 2) :
    /\ line[p] = "&"
    /\ IsSpace(line[p + 1])
    /\ SkipSp(line, p + 1) <= Len(line)
    /\ line[SkipSp(line, p + 1)] \in WordAtom

\* Lines 389-417: the line names a company.
is_company(line) ==
  /\ \E kw \in company_keywords :
       Occurs(kw, line) /\ StrLen(line) < 50 /\ Count(line, ",") <= 1
  /\ ~IsCityCountry(line)
  /\ ~HasParenYear(line)
  /\ ~(Count(line, ":") > 0 /\ StrLen(line) > 25)
  /\ ~AnyIn(project_words, LowerSeq(line))
  /\ ~HasAmpWord(line)

\* The words re.split cuts the company name at (line 426), lower-cased.
split_words ==
  { "sap", "implementation", "&", "turkey", "international" }

\* The positions where r'\s+(?:SAP|implementation|&|Turkey|International)'
\* matches: a run of white space starting at p, followed by such a word.
CutPoints(company) ==
  { p \in 1..Len(company) :
      /\ IsSpace(company[p])
      /\ SkipSp(company, p) <= Len(company)
      /\ \E w \in split_words :
           HasPrefix(Lower(company[SkipSp(company, p)]), w) }

\* Lines 421-431: the company name cleaned.
clean_company(line) ==
  LET cut == CutPoints(line)
      parts0 == IF cut = {} THEN line ELSE SubSeq(line, 1, Min(cut) - 1)
      company ==
        IF Occurs(<<"SAP">>, line) \/ Occurs(<<"implementation">>, LowerSeq(line))
        THEN IF StrLen(parts0) > 10 THEN Strip(parts0) ELSE line
        ELSE line
      RECURSIVE DropTail(_)
      DropTail(s) ==
        IF s # <<>> /\ (IsSpace(s[Len(s)]) \/ s[Len(s)] = "&")
        THEN DropTail(SubSeq(s, 1, Len(s) - 1)) ELSE s
  IN Strip(DropTail(company))

\* date_pattern (lines 451, 518) matched from atom p of the line: the index
\* of the last atom of the match, 0 when it does not match there.
\*   [A-Z][a-z]+\s+\d{4}\s*-\s*(?:Present|[A-Z][a-z]+\s+\d{4})
DateEnd(s, p) ==
  LET b == SkipSp(s, p + 1)
      c == SkipSp(s, b + 1)
      d == SkipSp(s, c + 1)
      e == SkipSp(s, d + 1)
  IN IF /\ s[p] \in CapLower
        /\ b > p + 1 /\ b <= Len(s) /\ s[b] \in Year4
        /\ c <= Len(s) /\ s[c] = "-"
        /\ d <= Len(s)
     THEN IF s[d] = "Present" THEN d
          ELSE IF /\ s[d] \in CapLower
                  /\ e > d + 1 /\ e <= Len(s) /\ s[e] \in Year4
               THEN e
               ELSE 0
     ELSE 0

DateStarts(s) == { p \in 1..Len(s) : DateEnd(s, p) > 0 }

\* re.search(date_pattern, line): group(1), <<>> when there is no match.
date_match(s) ==
  IF DateStarts(s) = {} THEN <<>>
  ELSE SubSeq(s, Min(DateStarts(s)), DateEnd(s, Min(DateStarts(s))))

\* The closing parenthesis of r'\(([0-9]+\s*(?:year|month)s?[^)]*)\)' opened
\* at atom p, 0 when it does not match there.
DurationEnd(s, p) ==
  LET u == SkipSp(s, p + 2)
      close == { q \in (u + 1)..Len(s) : s[q] = ")" }
  IN IF /\ s[p] = "("
        /\ p + 1 <= Len(s) /\ s[p + 1] \in Digits
        /\ u <= Len(s)
        /\ (HasPrefix(s[u], "year") \/ HasPrefix(s[u], "month"))
        /\ close # {}
     THEN Min(close) ELSE 0

DurationStarts(s) == { p \in 1..Len(s) : DurationEnd(s, p) > 0 }

\* re.search of the duration pattern: group(1), <<>> when there is no match.
duration_match(s) ==
  IF DurationStarts(s) = {} THEN <<>>
  ELSE SubSeq(s, Min(DurationStarts(s)) + 1,
              DurationEnd(s, Min(DurationStarts(s))) - 1)

\* The period without the parenthesised duration.
period_of_date_only(line) == date_match(line)

\* Lines 454-459 and 521-525: the period of a date line.
period_of(line) ==
  IF duration_match(line) # <<>>
  THEN date_match(line) \o <<SP, "(">> \o duration_match(line) \o <<")">>
  ELSE date_match(line)

\* re.match(r'^[A-ZİÖÜÇŞĞ][a-züğışçö]+[-,\s]+[A-Z][a-z]+$', line, re.IGNORECASE):
\* two runs of letters with hyphens, commas and blanks between them.
IsLocation(line) ==
  /\ Len(line) >= 3
  /\ line[1] \in Alpha
  /\ line[Len(line)] \in Alpha
  /\ \A k \in 2..(Len(line) - 1) : line[k] \in {"-", ",", SP}

\* re.sub(r'\(.*?\)', '', s): every "(" up to the next ")" removed.
RECURSIVE StripParens(_)
StripParens(s) ==
  IF s = <<>> THEN <<>>
  ELSE IF s[1] = "(" /\ \E q \in 2..Len(s) : s[q] = ")"
       THEN StripParens(SubSeq(s, Min({ q \in 2..Len(s) : s[q] = ")" }) + 1, Len(s)))
       ELSE <<s[1]>> \o StripParens(Tail(s))

\* re.sub(r'\([12]\d{3}\)', '', s)
RECURSIVE StripParenYears(_)
StripParenYears(s) ==
  IF s = <<>> THEN <<>>
  ELSE IF Len(s) >= 3 /\ s[1] = "(" /\ s[2] \in Year4 /\ s[3] = ")"
       THEN StripParenYears(SubSeq(s, 4, Len(s)))
       ELSE <<s[1]>> \o StripParenYears(Tail(s))

\* Lines 479-480 and 540-541.
clean_position(line) == Strip(StripParens(Strip(StripParenYears(line))))

\* A company lookahead that hands the scan back at the line after the
\* company line, whatever it has read.
RECURSIVE LookaheadFromNext(_, _, _, _, _)
LookaheadFromNext(lines, i, j, position, title) ==
  IF ~(j <= Len(lines) /\ j < i + CompanyWindow)
  THEN [j |-> i + 1, position |-> position, title |-> title,
        period |-> <<>>, location |-> <<>>]
  ELSE
    LET next_line == Strip(lines[j]) IN
    IF next_line = <<>> \/ StrLen(next_line) < 3
    THEN LookaheadFromNext(lines, i, j + 1, position, title)
    ELSE IF AnyIn(skip_words, LowerSeq(next_line))
    THEN LookaheadFromNext(lines, i, j + 1, position, title)
    ELSE IF date_match(next_line) # <<>>
    THEN LET loc_line == IF j + 1 <= Len(lines) THEN Strip(lines[j + 1]) ELSE <<>>
             isloc == j + 1 <= Len(lines) /\ IsLocation(loc_line)
         IN [j |-> i + 1,
             position |-> position, title |-> title,
             period |-> period_of(next_line),
             location |-> IF isloc THEN loc_line ELSE <<>>]
    ELSE IF /\ position = <<>>
            /\ StrLen(next_line) > 5
            /\ AnyIn(lookahead_roles, LowerSeq(next_line))
            /\ ~AnyIn(company_keywords, next_line)
            /\ clean_position(next_line) # <<>>
    THEN LookaheadFromNext(lines, i, j + 1, clean_position(next_line), j)
    ELSE LookaheadFromNext(lines, i, j + 1, position, title)

\* Lines 437-486: the lookahead after the company line i, from line j on.
\* Returns the index the loop ends at and what it found; `title` is the
\* index of the line the position was read from, 0 while there is none.
RECURSIVE Lookahead(_, _, _, _, _)
Lookahead(lines, i, j, position, title) ==
  IF ~(j <= Len(lines) /\ j < i + CompanyWindow)
  THEN [j |-> j, position |-> position, title |-> title,
        period |-> <<>>, location |-> <<>>]
  ELSE
    LET next_line == Strip(lines[j]) IN
    IF next_line = <<>> \/ StrLen(next_line) < 3
    THEN Lookahead(lines, i, j + 1, position, title)
    ELSE IF AnyIn(skip_words, LowerSeq(next_line))
    THEN Lookahead(lines, i, j + 1, position, title)
    ELSE IF date_match(next_line) # <<>>
    THEN LET loc_line == IF j + 1 <= Len(lines) THEN Strip(lines[j + 1]) ELSE <<>>
             isloc == j + 1 <= Len(lines) /\ IsLocation(loc_line)
         IN [j |-> IF isloc THEN j + 2 ELSE j + 1,
             position |-> position, title |-> title,
             period |-> period_of(next_line),
             location |-> IF isloc THEN loc_line ELSE <<>>]
    ELSE IF /\ position = <<>>
            /\ StrLen(next_line) > 5
            /\ AnyIn(lookahead_roles, LowerSeq(next_line))
            /\ ~AnyIn(company_keywords, next_line)
            /\ clean_position(next_line) # <<>>
    THEN Lookahead(lines, i, j + 1, clean_position(next_line), j)
    ELSE Lookahead(lines, i, j + 1, position, title)

\* An orphan lookahead that is not kept to a window: it runs to the end of
\* the lines.
RECURSIVE OrphanLookaheadToEnd(_, _, _)
OrphanLookaheadToEnd(lines, i, j) ==
  IF ~(j <= Len(lines))
  THEN [j |-> j, period |-> <<>>, location |-> <<>>]
  ELSE
    LET next_line == Strip(lines[j]) IN
    IF date_match(next_line) # <<>>
    THEN LET loc_line == IF j + 1 <= Len(lines) THEN Strip(lines[j + 1]) ELSE <<>>
             isloc == j + 1 <= Len(lines) /\ IsLocation(loc_line)
         IN [j |-> IF isloc THEN j + 2 ELSE j + 1,
             period |-> period_of(next_line),
             location |-> IF isloc THEN loc_line ELSE <<>>]
    ELSE OrphanLookaheadToEnd(lines, i, j + 1)

\* Lines 513-535: the lookahead after an orphan title at line i.
RECURSIVE OrphanLookahead(_, _, _)
OrphanLookahead(lines, i, j) ==
  IF ~(j <= Len(lines) /\ j < i + OrphanWindow)
  THEN [j |-> j, period |-> <<>>, location |-> <<>>]
  ELSE
    LET next_line == Strip(lines[j]) IN
    IF date_match(next_line) # <<>>
    THEN LET loc_line == IF j + 1 <= Len(lines) THEN Strip(lines[j + 1]) ELSE <<>>
             isloc == j + 1 <= Len(lines) /\ IsLocation(loc_line)
         IN [j |-> IF isloc THEN j + 2 ELSE j + 1,
             period |-> period_of(next_line),
             location |-> IF isloc THEN loc_line ELSE <<>>]
    ELSE OrphanLookahead(lines, i, j + 1)

\* str.endswith(('.', ':', ';'))
EndsWithStop(line) == line # <<>> /\ line[Len(line)] \in {".", ":", ";"}

\* str.startswith(('For ', 'Managing', 'Supporting'))
StartsDescription(line) ==
  \/ Len(line) >= 2 /\ line[1] = "For" /\ line[2] = SP
  \/ line # <<>> /\ (HasPrefix(line[1], "Managing") \/ HasPrefix(line[1], "Supporting"))

\* An experience entry (lines 490-496, 544-550).
Entry(company, position, period, location) ==
  [company |-> Str(company), position |-> Str(position),
   period |-> Str(period), location |-> Str(location),
   responsibilities |-> <<>>]

\* Lines 370-556: the scan from line i on; last_company is <<>> for None.
\* Returns the entries and the scan positions visited.
RECURSIVE Scan(_, _, _, _, _)
Scan(lines, i, last_company, experiences, visited) ==
  IF ~(i <= Len(lines)) THEN [experiences |-> experiences, visited |-> visited]
  ELSE
    LET line == Strip(lines[i])
        seen == Append(visited, i)
    IN
    IF line = <<>> \/ StrLen(line) < 3
    THEN Scan(lines, i + 1, last_company, experiences, seen)
    ELSE IF AnyIn(skip_words, LowerSeq(line))
    THEN Scan(lines, i + 1, last_company, experiences, seen)
    ELSE IF is_company(line)
    THEN LET company == clean_company(line)
             la == Lookahead(lines, i, i + 1, <<>>, 0)
             emit == company # <<>> /\ la.position # <<>>
         IN Scan(lines, la.j,
                 IF emit THEN company ELSE last_company,
                 IF emit
                 THEN Append(experiences,
                             Entry(company, la.position, la.period, la.location))
                 ELSE experiences,
                 seen)
    ELSE IF /\ StrLen(line) > 10
            /\ AnyIn(orphan_roles, LowerSeq(line))
            /\ ~EndsWithStop(line)
            /\ ~StartsDescription(line)
    THEN LET la == OrphanLookahead(lines, i, i + 1)
             emit == /\ la.period # <<>>
                     /\ last_company # <<>>
                     /\ clean_position(line) # <<>>
         IN IF emit
            THEN Scan(lines, la.j, last_company,
                      Append(experiences,
                             Entry(last_company, clean_position(line),
                                   la.period, la.location)),
                      seen)
            ELSE Scan(lines, i + 1, last_company, experiences, seen)
    ELSE Scan(lines, i + 1, last_company, experiences, seen)

\* CVParser.extract_experience on the text.
extract_experience(text) == Scan(SplitLines(text), 1, <<>>, <<>>, <<>>).experiences

-----------------------------------------------------------------------------
(* CVParserDocling.extract_experience: the explicit-section scan *)

\* A Python dict: a function from the keys it holds.  {} is the empty one.
EmptyDict == <<>>
HasKey(d, k) == k \in DOMAIN d
\* d[k] = v
SetKey(d, k, v) == (k :> v) @@ d

\* The headers that end the captured section (line 462), lower-cased.
experience_terminators == { "education", "certifications", "skills" }

\* The atoms [:\s]* runs over after the header word at p: up to index
RECURSIVE HeaderRunEnd(_, _)
HeaderRunEnd(text, k) ==
  IF k <= Len(text) /\ (IsSpace(text[k]) \/ text[k] = ":")
  THEN HeaderRunEnd(text, k + 1) ELSE k - 1

\* The lookahead (?=\nEDUCATION|\nCERTIFICATIONS|\nSKILLS|$) holds after atom t.
SectionStops(text, t, terminators) ==
  \/ t = Len(text)
  \/ t = Len(text) - 1 /\ text[Len(text)] = NL
  \/ /\ t + 2 <= Len(text)
     /\ text[t + 1] = NL
     /\ \E w \in terminators : HasPrefix(Lower(text[t + 2]), w)

\* Where r'WORD[:\s]*\n(.+?)(?=...)' puts group(1) when WORD ends atom p:
\* <<from, to>>, or <<>> when it does not match there.  [:\s]* is greedy and
\* gives back until a line break is its last character and one more
\* character is left for the group.
SectionAt(text, p, word, terminators) ==
  LET r == HeaderRunEnd(text, p + 1)
      breaks == { h \in (p + 1)..r : text[h] = NL /\ h < Len(text) }
      from == (CHOOSE h \in breaks : \A g \in breaks : g <= h) + 1
      stops == { t \in from..Len(text) : SectionStops(text, t, terminators) }
  IN IF HasSuffix(Lower(text[p]), word) /\ breaks # {}
     THEN <<from, Min(stops)>> ELSE <<>>

\* re.search of the section pattern: group(1), <<>> when there is no match.
Section(text, word, terminators) ==
  LET starts == { p \in 1..Len(text) : SectionAt(text, p, word, terminators) # <<>> }
  IN IF starts = {} THEN <<>>
     ELSE LET g == SectionAt(text, Min(starts), word, terminators)
          IN SubSeq(text, g[1], g[2])

\* [l.strip() for l in t.split('\n') if l.strip()]
RECURSIVE NonEmpty(_)
NonEmpty(ls) ==
  IF ls = <<>> THEN <<>>
  ELSE IF Strip(ls[1]) = <<>> THEN NonEmpty(Tail(ls))
  ELSE <<Strip(ls[1])>> \o NonEmpty(Tail(ls))

StrippedLines(t) == NonEmpty(SplitLines(t))

\* The title keywords of line 469, lower-cased.
docling_roles ==
  { <<"specialist">>, <<"engineer">>, <<"developer">>, <<"manager">>,
    <<"analyst">>, <<"lead">>, <<"consultant">>, <<"intern">>, <<"qa">>,
    <<"tester">> }

\* The words of line 470 that mark a sentence, not a title.
docling_verbs ==
  { <<"testing">>, <<"reported">>, <<"performed">>, <<"developed">> }

month_names ==
  { <<"january">>, <<"february">>, <<"march">>, <<"april">>, <<"may">>,
    <<"june">>, <<"july">>, <<"august">>, <<"september">>, <<"october">>,
    <<"november">>, <<"december">> }

\* re.search(r'(20\d{2}|Present|January|...|December)', line, re.IGNORECASE)
LooksLikePeriod(line) ==
  \/ \E k \in 1..Len(line) : line[k] \in Has20xx
  \/ Occurs(<<"present">>, LowerSeq(line))
  \/ AnyIn(month_names, LowerSeq(line))

\* The bullet glyph U+2022, which a TLA+ string cannot hold: one character.
BULLET == "*"

\* line.lstrip(BULLET).strip()
RECURSIVE LStripBullets(_)
LStripBullets(s) ==
  IF s # <<>> /\ s[1] = BULLET THEN LStripBullets(Tail(s)) ELSE s

\* Lines 467-488: the walk over the section's lines from line k on.
\* Returns the entries, and exc = "KeyError" when the walk raised.
RECURSIVE DoclingWalk(_, _, _, _)
DoclingWalk(exp_lines, k, current_exp, experiences) ==
  IF k > Len(exp_lines)
  THEN [exc |-> "",
        val |-> IF current_exp # EmptyDict
                THEN Append(experiences, current_exp) ELSE experiences]
  ELSE
    LET line == exp_lines[k] IN
    IF AnyIn(docling_roles, LowerSeq(line))
    THEN IF ~AnyIn(docling_verbs, LowerSeq(line))
         THEN DoclingWalk(exp_lines, k + 1,
                [position |-> Str(line), company |-> "", period |-> "",
                 location |-> "", responsibilities |-> <<>>],
                IF current_exp # EmptyDict
                THEN Append(experiences, current_exp) ELSE experiences)
         ELSE DoclingWalk(exp_lines, k + 1, current_exp, experiences)
    ELSE IF Count(line, ",") > 0 /\ StrLen(line) < 100
    THEN IF ~HasKey(current_exp, "company") \/ current_exp["company"] = ""
         THEN DoclingWalk(exp_lines, k + 1,
                          SetKey(current_exp, "company", Str(line)), experiences)
         ELSE DoclingWalk(exp_lines, k + 1, current_exp, experiences)
    ELSE IF LooksLikePeriod(line)
    THEN IF ~HasKey(current_exp, "period") \/ current_exp["period"] = ""
         THEN DoclingWalk(exp_lines, k + 1,
                          SetKey(current_exp, "period", Str(line)), experiences)
         ELSE DoclingWalk(exp_lines, k + 1, current_exp, experiences)
    ELSE IF line[1] = BULLET
    THEN IF current_exp # EmptyDict
         THEN IF ~HasKey(current_exp, "responsibilities")
              THEN [exc |-> "KeyError", val |-> <<>>]
              ELSE DoclingWalk(exp_lines, k + 1,
                     SetKey(current_exp, "responsibilities",
                            Append(current_exp["responsibilities"],
                                   Str(Strip(LStripBullets(line))))),
                     experiences)
         ELSE DoclingWalk(exp_lines, k + 1, current_exp, experiences)
    ELSE DoclingWalk(exp_lines, k + 1, current_exp, experiences)

\* CVParserDocling.extract_experience on the text: [exc, val].
docling_extract_experience(text) ==
  LET exp_text == Section(text, "experience", experience_terminators)
  IN IF exp_text = <<>> THEN [exc |-> "", val |-> <<>>]
     ELSE DoclingWalk(StrippedLines(exp_text), 1, EmptyDict, <<>>)

-----------------------------------------------------------------------------
(* extract_skills of CVParser and of CVParserDocling *)

\* `unique_skills[:25]`
SkillsCap == 25

\* `if skills_line_count > 10: break`
SkillsLines == 10

\* The list without the cap.
KeepAll(s, n) == s

\* s[:n]
Take(s, n) == IF Len(s) <= n THEN s ELSE SubSeq(s, 1, n)

\* The line without one trailing colon: what `:?$` leaves to the name.
DropColon(line) ==
  IF line # <<>> /\ line[Len(line)] = ":"
  THEN SubSeq(line, 1, Len(line) - 1) ELSE line

\* re.match(r'^(Top\s+)?Skills:?$', line, re.IGNORECASE)
IsSkillsHeader(line) ==
  LET body == DropColon(line) IN
  \/ Len(body) = 1 /\ Lower(body[1]) = "skills"
  \/ /\ Len(body) >= 3
     /\ Lower(body[1]) = "top"
     /\ Lower(body[Len(body)]) = "skills"
     /\ \A k \in 2..(Len(body) - 1) : IsSpace(body[k])

\* The headers that end the skills section, lower-cased.
skills_terminators == { "languages", "certifications", "experience", "education" }

\* re.match(r'^(Languages|Certifications|Experience|Education):?$', line, re.IGNORECASE)
IsHeader(line, names) ==
  Len(DropColon(line)) = 1 /\ Lower(DropColon(line)[1]) \in names

\* re.sub(r'^in\s+', '', s, flags=re.IGNORECASE)
DropIn(s) ==
  IF Len(s) >= 2 /\ Lower(s[1]) = "in" /\ IsSpace(s[2])
  THEN SubSeq(s, SkipSp(s, 2), Len(s)) ELSE s

\* s.startswith(n) for a keyword n whose last atom may be the start of a word.
StartsWith(s, n) ==
  /\ Len(s) >= Len(n)
  /\ \A k \in 1..(Len(n) - 1) : s[k] = n[k]
  /\ HasPrefix(s[Len(n)], n[Len(n)])

\* The prefixes that disqualify an item of a comma-separated skills line.
skill_noise == { <<"page", SP>>, <<"www", ".">> }

\* The items of a comma-separated line that are kept.
RECURSIVE SkillParts(_)
SkillParts(parts) ==
  IF parts = <<>> THEN <<>>
  ELSE LET clean_skill == DropIn(Strip(parts[1])) IN
       (IF /\ clean_skill # <<>>
           /\ StrLen(clean_skill) > 2
           /\ \A n \in skill_noise : ~StartsWith(LowerSeq(clean_skill), n)
        THEN <<clean_skill>> ELSE <<>>) \o SkillParts(Tail(parts))

\* The skills one line of the section contributes.
LineSkills(line) ==
  IF Count(line, ",") > 0 THEN SkillParts(Split(line, {","}))
  ELSE LET clean_skill == Strip(DropIn(line)) IN
       IF clean_skill # <<>> /\ StrLen(clean_skill) > 2
       THEN <<clean_skill>> ELSE <<>>

\* The loop over the lines, from line k on: the skills collected and the
\* lines of the section that were read.
RECURSIVE SkillsWalk(_, _, _, _, _, _)
SkillsWalk(lines, k, in_skills_section, skills_line_count, skills, read) ==
  IF k > Len(lines) THEN [skills |-> skills, read |-> read]
  ELSE
    LET line == Strip(lines[k]) IN
    IF IsSkillsHeader(line)
    THEN SkillsWalk(lines, k + 1, TRUE, 0, skills, read)
    ELSE IF in_skills_section /\ IsHeader(line, skills_terminators)
    THEN [skills |-> skills, read |-> read]
    ELSE IF in_skills_section
    THEN IF skills_line_count + 1 > SkillsLines
         THEN [skills |-> skills \o LineSkills(line), read |-> Append(read, k)]
         ELSE SkillsWalk(lines, k + 1, TRUE, skills_line_count + 1,
                         skills \o LineSkills(line), Append(read, k))
    ELSE SkillsWalk(lines, k + 1, FALSE, skills_line_count, skills, read)

section_skills(text) == SkillsWalk(SplitLines(text), 1, FALSE, 0, <<>>, <<>>).skills

\* The case-insensitive key of a skill: skill.lower().strip()
SkillKey(skill) == Str(LowerSeq(Strip(skill)))

\* All skills, duplicates included.
KeepDuplicates(skills, seen) == skills

\* The first of each group of skills that are equal but for case, in order.
RECURSIVE Unique(_, _)
Unique(skills, seen) ==
  IF skills = <<>> THEN <<>>
  ELSE IF SkillKey(skills[1]) \notin seen /\ StrLen(skills[1]) > 2
       THEN <<skills[1]>> \o Unique(Tail(skills), seen \cup {SkillKey(skills[1])})
       ELSE Unique(Tail(skills), seen)

\* CVParserDocling.extract_skills on the text.
docling_extract_skills(text) == Take(Unique(section_skills(text), {}), SkillsCap)

\* The characters of the atom a that the keyword n matches, as a spells
\* them, for the atoms that hold n without being n.
PartText ==
  (<<"it", "Audit">> :> "it") @@ (<<"leader", "Leadership">> :> "Leader") @@
  (<<"player", "players">> :> "player")

Part(a, n) == IF Lower(a) = n THEN a ELSE PartText[<<n, a>>]

\* The first index at or after k whose atom is not a word (\w+ runs over
\* adjacent word atoms).
RECURSIVE SkipWord(_, _)
SkipWord(s, k) == IF k <= Len(s) /\ s[k] \in WordAtom THEN SkipWord(s, k + 1) ELSE k

\* The index of the last atom of the line that atom k lies on.
LineEnd(s, k) ==
  LET breaks == { q \in k..Len(s) : s[q] = NL }
  IN IF breaks = {} THEN Len(s) ELSE Min(breaks) - 1

\* The phrases of the auxiliary patterns 3, 4 and 5 (lines 254-256), in lower
\* case; SP stands for \s+.
fallback_phrases ==
  << {}, {},
     { <<"leadership">>, <<"communication">>, <<"problem", "-", "solving">>,
       <<"time", "-", "management">> },
     { <<"team", SP, "leader">>, <<"team", SP, "player">> },
     { <<"project", SP, "management">>, <<"data", SP, "analysis">>,
       <<"resource", SP, "management">> } >>

\* Piece k of the phrase n matched from atom p on, case-insensitively: the
\* index of the last atom of the match, 0 when there is none.
RECURSIVE PhraseEnd(_, _, _, _)
PhraseEnd(n, k, text, p) ==
  IF p > Len(text) THEN 0
  ELSE IF n[k] = SP
  THEN IF IsSpace(text[p]) THEN PhraseEnd(n, k + 1, text, SkipSp(text, p)) ELSE 0
  ELSE IF ~PieceAt(n, k, Lower(text[p])) THEN 0
  ELSE IF k = Len(n) THEN p
  ELSE PhraseEnd(n, k + 1, text, p + 1)

\* The text a phrase matched between atoms p and e.
PhraseText(n, text, p, e) ==
  IF p = e THEN <<Part(text[p], n[1])>>
  ELSE <<Part(text[p], n[1])>> \o SubSeq(text, p + 1, e - 1)
         \o <<Part(text[e], n[Len(n)])>>

\* r'Skills?:\s*(.+)' matched from atom p: the last atom of the match and
\* group(1); end = 0 when it does not match there.
SkillsLabelAt(text, p) ==
  LET u == SkipSp(text, p + 2)
      blanks == { q \in (p + 2)..Len(text) : text[q] = SP }
  IN IF ~(/\ p + 1 <= Len(text)
          /\ \/ HasSuffix(Lower(text[p]), "skills")
             \/ HasSuffix(Lower(text[p]), "skill")
          /\ text[p + 1] = ":")
     THEN [end |-> 0, group |-> <<>>]
     ELSE IF u <= Len(text)
     THEN [end |-> LineEnd(text, u), group |-> SubSeq(text, u, LineEnd(text, u))]
     \* nothing but white space up to the end of the text: \s* gives back
     \* until a blank is left for (.+)
     ELSE IF blanks # {}
     THEN [end |-> Len(text), group |-> <<SP>>]
     ELSE [end |-> 0, group |-> <<>>]

\* r'(IT\s+\w+(?:\s+\w+){0,2})' matched from atom p.
ItWordsAt(text, p) ==
  LET b1 == SkipSp(text, p + 1)
      e1 == SkipWord(text, b1)
      b2 == SkipSp(text, e1)
      e2 == SkipWord(text, b2)
      b3 == SkipSp(text, e2)
      e3 == SkipWord(text, b3)
      last ==
        IF b2 > e1 /\ e2 > b2
        THEN IF b3 > e2 /\ e3 > b3 THEN e3 - 1 ELSE e2 - 1
        ELSE e1 - 1
  IN IF HasSuffix(Lower(text[p]), "it") /\ b1 > p + 1 /\ e1 > b1
     THEN [end |-> last,
           group |-> <<Part(text[p], "it")>> \o SubSeq(text, p + 1, last)]
     ELSE [end |-> 0, group |-> <<>>]

\* The auxiliary pattern `pattern` (1..5) matched from atom p.
FallbackAt(pattern, text, p) ==
  IF pattern = 1 THEN SkillsLabelAt(text, p)
  ELSE IF pattern = 2 THEN ItWordsAt(text, p)
  ELSE LET hits == { n \in fallback_phrases[pattern] : PhraseEnd(n, 1, text, p) > 0 }
       IN IF hits = {} THEN [end |-> 0, group |-> <<>>]
          ELSE LET n == CHOOSE h \in hits : TRUE
                   e == PhraseEnd(n, 1, text, p)
               IN [end |-> e, group |-> PhraseText(n, text, p, e)]

\* re.finditer(pattern, text, re.IGNORECASE) from atom `from` on: group(1) of
\* the matches, left to right, none overlapping another.
RECURSIVE FindAll(_, _, _)
FindAll(pattern, text, from) ==
  LET starts == { p \in from..Len(text) : FallbackAt(pattern, text, p).end > 0 }
  IN IF starts = {} THEN <<>>
     ELSE LET m == FallbackAt(pattern, text, Min(starts))
          IN <<m.group>> \o FindAll(pattern, text, m.end + 1)

\* The matches that are kept: skill.strip(), when 5 < len(skill) < 60.
RECURSIVE KeepSkills(_)
KeepSkills(groups) ==
  IF groups = <<>> THEN <<>>
  ELSE LET skill == Strip(groups[1]) IN
       (IF skill # <<>> /\ 5 < StrLen(skill) /\ StrLen(skill) < 60
        THEN <<skill>> ELSE <<>>) \o KeepSkills(Tail(groups))

\* Lines 249-263: the skills of the auxiliary patterns, pattern by pattern.
fallback_skills(text) ==
  KeepSkills(FindAll(1, text, 1)) \o KeepSkills(FindAll(2, text, 1))
    \o KeepSkills(FindAll(3, text, 1)) \o KeepSkills(FindAll(4, text, 1))
    \o KeepSkills(FindAll(5, text, 1))

\* The skills before the duplicates are removed.
collected_skills(text) ==
  IF section_skills(text) # <<>> THEN section_skills(text) ELSE fallback_skills(text)

\* CVParser.extract_skills on the text.
extract_skills(text) == Take(Unique(collected_skills(text), {}), SkillsCap)

-----------------------------------------------------------------------------
(* extract_languages: positional in CVParser, keyword-gated in CVParserDocling *)

\* `[...][:10]` and `cleaned_langs[:10]`
LanguagesCap == 10

\* `text[start_pos:start_pos+500]`
LanguagesWindow == 500

\* The characters re.split(r'[,\n•·]', lang_text) cuts at.
language_separators == { ",", NL, BULLET, "·" }

\* The headers that end the languages block of CVParser, lower-cased.
language_terminators == { "certifications", "experience", "education" }

\* The last index of the run of colons and line breaks from atom k on (k - 1
\* when there is none): what [:\n]+ runs over.
RECURSIVE ColonRunEnd(_, _)
ColonRunEnd(text, k) ==
  IF k <= Len(text) /\ text[k] \in {":", NL}
  THEN ColonRunEnd(text, k + 1) ELSE k - 1

\* (?=\n\n[A-Z]|\nCertifications|\nExperience|\nEducation|$) holds after
\* atom t; under re.IGNORECASE [A-Z] is any letter.
LanguageStops(text, t) ==
  \/ t = Len(text)
  \/ t = Len(text) - 1 /\ text[Len(text)] = NL
  \/ /\ t + 3 <= Len(text)
     /\ text[t + 1] = NL /\ text[t + 2] = NL
     /\ text[t + 3] \in LetterStart
  \/ /\ t + 2 <= Len(text)
     /\ text[t + 1] = NL
     /\ \E w \in language_terminators : HasPrefix(Lower(text[t + 2]), w)

\* Where lang_pattern (line 283) puts group(1) when the word Language(s)
\* ends atom p: <<from, to>>, <<>> when it does not match there.  [:\n]+
\* is greedy and gives back one character when nothing else is left for
\* the group.
LanguagesAt(text, p) ==
  LET r == ColonRunEnd(text, p + 1)
      from == IF r < Len(text) THEN r + 1 ELSE r
      stops == { t \in from..Len(text) : LanguageStops(text, t) }
  IN IF /\ \/ HasSuffix(Lower(text[p]), "languages")
           \/ HasSuffix(Lower(text[p]), "language")
        /\ r >= p + 1
        /\ (r < Len(text) \/ r >= p + 2)
     THEN <<from, Min(stops)>> ELSE <<>>

\* The pieces that are kept: lang.strip(), when it is longer than 2.
RECURSIVE KeepLanguages(_)
KeepLanguages(langs) ==
  IF langs = <<>> THEN <<>>
  ELSE (IF Strip(langs[1]) # <<>> /\ StrLen(Strip(langs[1])) > 2
        THEN <<Strip(langs[1])>> ELSE <<>>) \o KeepLanguages(Tail(langs))

\* CVParser.extract_languages on the text.
extract_languages(text) ==
  LET starts == { p \in 1..Len(text) : LanguagesAt(text, p) # <<>> } IN
  IF starts = {} THEN <<>>
  ELSE LET g == LanguagesAt(text, Min(starts))
           lang_text == Strip(SubSeq(text, g[1], g[2]))
       IN Take(KeepLanguages(Split(lang_text, language_separators)), LanguagesCap)

programming_langs ==
  << <<"java">>, <<"python">>, <<"c", "#">>, <<"c", "+", "+">>, <<".", "net">>,
     <<"javascript">>, <<"html">>, <<"css">>, <<"php">>, <<"ruby">>, <<"go">>,
     <<"rust">>, <<"swift">>, <<"kotlin">>, <<"typescript">>, <<"sql">> >>

\* programming_langs[:5], the names the block is tested for.
gate_langs == { programming_langs[k] : k \in 1..5 }

spoken_lang_keywords ==
  { <<"English">>, <<"Turkish">>, <<"Spanish">>, <<"French">>, <<"German">>,
    <<"Italian">>, <<"Portuguese">>, <<"Russian">>, <<"Chinese">>,
    <<"Japanese">>, <<"Korean">>, <<"Arabic">> }

proficiency_words ==
  { <<"Native">>, <<"Fluent">>, <<"Intermediate">>, <<"Basic">>,
    <<"Beginner">>, <<"Upper">>, <<"Advanced">>, <<"A1">>, <<"A2">>,
    <<"B1">>, <<"B2">>, <<"C1">>, <<"C2">> }

\* The section names that are not languages (line 370), lower-cased.
language_headers ==
  { "languages", "additional information", "programming languages",
    "certifications" }

language_noise == { <<"for", SP, "full">>, <<"page", SP>>, <<"www", ".">>, <<"http">> }

\* The atoms of the text from `from` on that lie within n characters.
RECURSIVE Window(_, _, _)
Window(text, from, n) ==
  IF from > Len(text) \/ Len(text[from]) > n THEN <<>>
  ELSE <<text[from]>> \o Window(text, from + 1, n - Len(text[from]))

\* The first index at or after k whose atom is neither capitals nor white
\* space: where [A-Z\s]+ stops.
RECURSIVE SkipCaps(_, _)
SkipCaps(s, k) ==
  IF k <= Len(s) /\ (s[k] \in Upper \/ IsSpace(s[k])) THEN SkipCaps(s, k + 1) ELSE k

\* r'\n([A-Z][A-Z\s]+)\n' matches at the line break q of the window.
CapsLineAt(w, q) ==
  /\ w[q] = NL
  /\ q + 1 <= Len(w)
  /\ w[q + 1] \in Upper
  /\ \E h \in (q + 2)..(SkipCaps(w, q + 1) - 1) :
       w[h] = NL /\ (Len(w[q + 1]) >= 2 \/ h >= q + 3)

\* re.sub(r'\s*[–-]\s*', ' - ', lang)
RECURSIVE SpaceDashes(_)
SpaceDashes(s) ==
  IF s = <<>> THEN <<>>
  ELSE IF SkipSp(s, 1) <= Len(s) /\ s[SkipSp(s, 1)] = "-"
  THEN <<SP, "-", SP>> \o SpaceDashes(SubSeq(s, SkipSp(s, SkipSp(s, 1) + 1), Len(s)))
  ELSE IF IsSpace(s[1])
  THEN SubSeq(s, 1, SkipSp(s, 1) - 1) \o SpaceDashes(SubSeq(s, SkipSp(s, 1), Len(s)))
  ELSE <<s[1]>> \o SpaceDashes(Tail(s))

\* Lines 362-374: the pieces of the block that are kept, cleaned.
RECURSIVE CleanLanguages(_)
CleanLanguages(langs) ==
  IF langs = <<>> THEN <<>>
  ELSE LET lang == Strip(langs[1]) IN
       (IF \/ lang = <<>> \/ StrLen(lang) < 3
           \/ \E k \in 1..Len(programming_langs) :
                Str(programming_langs[k]) = Str(LowerSeq(lang))
           \/ Str(LowerSeq(lang)) \in language_headers
           \/ \E n \in language_noise : StartsWith(LowerSeq(lang), n)
        THEN <<>> ELSE <<SpaceDashes(lang)>>) \o CleanLanguages(Tail(langs))

\* Lines 353-377: the languages of the block after the occurrence of
\* LANGUAGES at atom p, <<>> when the block is rejected.
LanguagesBlock(text, p) ==
  LET w == Window(text, p + 1, LanguagesWindow)
      heads == { q \in 1..Len(w) : CapsLineAt(w, q) }
      lang_text == Strip(IF heads # {} THEN SubSeq(w, 1, Min(heads) - 1) ELSE w)
      has_proficiency == AnyIn(proficiency_words, lang_text)
      has_spoken_lang == AnyIn(spoken_lang_keywords, lang_text)
      has_programming == AnyIn(gate_langs, LowerSeq(lang_text))
  IN IF (has_proficiency \/ has_spoken_lang) /\ ~has_programming
     THEN CleanLanguages(Split(lang_text, language_separators))
     ELSE <<>>

\* The loop over the occurrences of LANGUAGES, from atom `from` on.
RECURSIVE LanguagesLoop(_, _)
LanguagesLoop(text, from) ==
  LET at == { p \in from..Len(text) : Lower(text[p]) = "languages" } IN
  IF at = {} THEN <<>>
  ELSE IF LanguagesBlock(text, Min(at)) # <<>>
  THEN Take(LanguagesBlock(text, Min(at)), LanguagesCap)
  ELSE LanguagesLoop(text, Min(at) + 1)

\* CVParserDocling.extract_languages on the text.
docling_extract_languages(text) == LanguagesLoop(text, 1)

-----------------------------------------------------------------------------
(* extract_name, the same in CVParser and in CVParserDocling *)

\* `lines[:10]` of the Contact rule and `lines[:15]` of the heuristic scan.
ContactLines == 10
NameLines == 15

\* s.split(): the runs of atoms between white space.
NonEmptyPieces(ps) == SelectSeq(ps, LAMBDA piece : piece # <<>>)

Words(s) == NonEmptyPieces(Split(s, {SP, NL}))

\* line.replace('Contact', ''): every occurrence removed.
RemoveContact(line) == SelectSeq(line, LAMBDA a : a # "Contact")

\* The name the line gives under the Contact rule (lines 50-54).
name_part(line) == Strip(RemoveContact(line))

\* Lines 49-54: the Contact rule from line k on; <<>> when no line applies.
RECURSIVE ContactRule(_, _)
ContactRule(lines, k) ==
  IF k > Len(lines) \/ k > ContactLines THEN <<>>
  ELSE IF /\ StartsWith(Strip(lines[k]), <<"Contact", SP>>)
          /\ name_part(lines[k]) # <<>>
          /\ Len(Words(name_part(lines[k]))) >= 2
       THEN name_part(lines[k])
       ELSE ContactRule(lines, k + 1)

name_skip_keywords ==
  { <<"top", SP, "skills">>, <<"summary">>, <<"education">>, <<"experience">>,
    <<"objective">>, <<"qualification">>, <<"certification">>,
    <<"it", SP, "governance">>, <<"it", SP, "services">>,
    <<"it", SP, "project">>, <<"management">>, <<"languages">> }

name_skip_starts == { <<"resume">>, <<"cv">>, <<"curriculum">>, <<"contact">> }

\* The characters and fragments a name line must not hold (line 82).
name_bad_marks == { <<"@">>, <<"+">>, <<"/">>, <<"www">>, <<"http">>, <<":">>, <<BULLET>> }

\* The words a name line must not hold (line 89).
name_bad_words == { "skills", "certified", "lead", "manager", "analyst", "developer" }

\* any(c.isupper() for c in s)
AnyUpper(s) == \E k \in 1..Len(s) : Lower(s[k]) # s[k]

\* len(w) > 1 and (w[0].isupper() or w.isupper())
IsCapitalWord(w) ==
  /\ StrLen(w) > 1
  /\ \/ w[1] \in UpperStart
     \/ AnyUpper(w) /\ \A k \in 1..Len(w) : w[k] \notin HasLower

\* Lines 59-90: the stripped line qualifies as a name.
IsNameLine(line) ==
  /\ line # <<>> /\ StrLen(line) >= 3
  /\ ~AnyIn(name_skip_keywords, LowerSeq(line))
  /\ \A n \in name_skip_starts : ~StartsWith(LowerSeq(line), n)
  /\ Len(Words(line)) >= 2 /\ Len(Words(line)) <= 5
  /\ AnyUpper(line)
  /\ ~AnyIn(name_bad_marks, line)
  /\ Count(line, ",") <= 1 /\ Count(line, "-") <= 1
  /\ Cardinality({ k \in 1..Len(Words(line)) : IsCapitalWord(Words(line)[k]) }) >= 2
  /\ \A k \in 1..Len(Words(line)) : Str(LowerSeq(Words(line)[k])) \notin name_bad_words

\* Lines 57-90: the heuristic scan from line k on.
RECURSIVE NameScan(_, _)
NameScan(lines, k) ==
  IF k > Len(lines) \/ k > NameLines THEN <<>>
  ELSE IF IsNameLine(Strip(lines[k])) THEN Strip(lines[k])
  ELSE NameScan(lines, k + 1)

\* extract_name on the text; <<>> is the empty name.
extract_name(text) ==
  IF ContactRule(SplitLines(text), 1) # <<>>
  THEN ContactRule(SplitLines(text), 1)
  ELSE NameScan(SplitLines(text), 1)

-----------------------------------------------------------------------------
(* extract_contact_info: e-mail, phone and LinkedIn *)

\* The largest element of a non-empty set of integers.
Max(S) == CHOOSE x \in S : \A y \in S : x >= y

\* The concatenation of a sequence of sequences.
RECURSIVE Flat(_)
Flat(ss) ==
  IF ss = <<>> THEN <<>>
  ELSE IF Len(ss) = 1 THEN ss[1]
  ELSE LET h == Len(ss) \div 2
       IN Flat(SubSeq(ss, 1, h)) \o Flat(SubSeq(ss, h + 1, Len(ss)))

\* The text character by character where digits are concerned: \d matches
\* one unit.
Units(text) ==
  Flat([k \in 1..Len(text) |->
          IF text[k] \in DOMAIN DigitUnits THEN DigitUnits[text[k]] ELSE <<text[k]>>])

Digit == { "0", "1", "2", "3", "4", "5", "6", "7", "8", "9" }

\* [-.\s]
phone_seps == { "-", ".", SP, NL }

\* One element of a pattern: between lo and hi characters of S, as many as
\* possible.
Tok(S, lo, hi) == [set |-> S, lo |-> lo, hi |-> hi]

\* \(?\d{3}\)?[-.\s]?\d{3}[-.\s]?\d{4}
local_number ==
  << Tok({"("}, 0, 1), Tok(Digit, 3, 3), Tok({")"}, 0, 1), Tok(phone_seps, 0, 1),
     Tok(Digit, 3, 3), Tok(phone_seps, 0, 1), Tok(Digit, 4, 4) >>

phone_patterns ==
  << << Tok({"+"}, 0, 1), Tok(Digit, 1, 3), Tok(phone_seps, 0, 1) >> \o local_number,
     << Tok({"+"}, 0, 1), Tok(Digit, 10, 13) >>,
     local_number >>

\* The number of units of S at p and after it, hi at most.
RunLen(u, p, S, hi) ==
  Max({ n \in 0..hi : \A j \in 0..(n - 1) : p + j <= Len(u) /\ u[p + j] \in S })

\* Where a match of the elements k.. of the pattern that starts at p ends
\* (the index after its last unit); 0 when there is none.  A longer run
\* of an element is tried before a shorter one.
RECURSIVE RxEnd(_, _, _, _)
RxEnd(tokens, k, u, p) ==
  IF k > Len(tokens) THEN p
  ELSE LET t == tokens[k]
           rest == [n \in t.lo..RunLen(u, p, t.set, t.hi) |->
                      RxEnd(tokens, k + 1, u, p + n)]
           ok == { n \in DOMAIN rest : rest[n] # 0 }
       IN IF ok = {} THEN 0 ELSE rest[Max(ok)]

\* re.search(pattern, text).group(0): the leftmost match, <<>> without one.
Search(tokens, u) ==
  LET ends == [p \in 1..Len(u) |-> RxEnd(tokens, 1, u, p)]
      starts == { p \in 1..Len(u) : ends[p] # 0 }
  IN IF starts = {} THEN <<>>
     ELSE SubSeq(u, Min(starts), ends[Min(starts)] - 1)

\* The loop over the phone patterns: the match of the first pattern that
\* matches, stripped.
RECURSIVE FirstPhone(_, _)
FirstPhone(patterns, u) ==
  LET m == Search(patterns[1], u)
  IN IF patterns = <<>> THEN <<>>
     ELSE IF m # <<>> THEN Strip(m)
     ELSE FirstPhone(Tail(patterns), u)

phone_search(text) == FirstPhone(phone_patterns, Units(text))

\* The first and the last index of the run of atoms of S around q (an
\* empty run when text[q] is not of S).
RunStart(text, q, S) ==
  LET outs == { k \in 1..q : text[k] \notin S }
  IN IF outs = {} THEN 1 ELSE Max(outs) + 1

RunEnd(text, q, S) ==
  LET outs == { k \in q..Len(text) : text[k] \notin S }
  IN IF outs = {} THEN Len(text) ELSE Min(outs) - 1

\* \b between atom e and the next atom.
BoundaryAfter(text, e) ==
  (text[e] \in WordAtom) # (e < Len(text) /\ text[e + 1] \in WordAtom)

\* \b before atom s.
BoundaryBefore(text, s) ==
  (text[s] \in WordAtom) # (s > 1 /\ text[s - 1] \in WordAtom)

\* Where [A-Z|a-z]{2,}\b can end when it starts at atom k.
DomainEnds(text, k) ==
  { e \in k..Len(text) :
      /\ \A j \in k..e : text[j] \in Letters \cup {"|"}
      /\ StrLen(SubSeq(text, k, e)) >= 2
      /\ BoundaryAfter(text, e) }

\* The match of the e-mail pattern around the "@" at q; <<>> without one.
EmailAt(text, q) ==
  LET starts == { s \in RunStart(text, q - 1, EmailLocalAtom)..(q - 1) :
                    text[s] \in WordAtom /\ BoundaryBefore(text, s) }
      dots == { d \in (q + 2)..RunEnd(text, q + 1, EmailDomainAtom) :
                  text[d] = "." /\ DomainEnds(text, d + 1) # {} }
  IN IF q = 1 \/ starts = {} \/ dots = {} THEN <<>>
     ELSE SubSeq(text, Min(starts), Max(DomainEnds(text, Max(dots) + 1)))

\* re.search(email_pattern, text)
email_search(text) ==
  LET ats == { q \in 1..Len(text) : text[q] = "@" /\ EmailAt(text, q) # <<>> }
  IN IF ats = {} THEN <<>> ELSE EmailAt(text, Min(ats))

\* linkedin\.com/in/[\w-]+ under re.IGNORECASE matches from atom p on.
LinkedinAt(text, p) ==
  /\ p + 6 <= Len(text)
  /\ HasSuffix(Lower(text[p]), "linkedin")
  /\ text[p + 1] = "." /\ Lower(text[p + 2]) = "com" /\ text[p + 3] = "/"
  /\ Lower(text[p + 4]) = "in" /\ text[p + 5] = "/"
  /\ text[p + 6] \in WordAtom \cup {"-"}

\* The loop over linkedin_patterns: the second pattern matches only where
\* the first one does, so the first one gives the value.
linkedin_search(text) ==
  LET at == { p \in 1..Len(text) : LinkedinAt(text, p) }
  IN IF at = {} THEN <<>>
     ELSE <<Part(text[Min(at)], "linkedin")>>
            \o SubSeq(text, Min(at) + 1, RunEnd(text, Min(at) + 6, WordAtom \cup {"-"}))

-----------------------------------------------------------------------------
(* extract_contact_info: the location and the contact mapping *)

\* `lines[:20]` of the location scans.
LocationLines == 20

\* re.search(r'X[-,\s]+Y', line) for an X that ends an atom and a Y that
\* begins one.
SeparatedPair(line, ends, begins) ==
  \E p \in 1..(Len(line) - 2) :
    /\ line[p] \in ends
    /\ line[p + 1] \in {"-", ",", SP, NL}
    /\ LET y == RunEnd(line, p + 1, {"-", ",", SP, NL}) + 1
       IN y <= Len(line) /\ line[y] \in begins

\* The last atom of [A-Z][A-Za-z]+(?: sep [A-Z][A-Za-z]+)* started at atom i;
\* sep is one character of seps (one = TRUE) or a run of them.
RECURSIVE ChainEnd(_, _, _, _)
ChainEnd(line, i, seps, one) ==
  LET j == IF one THEN i + 2 ELSE RunEnd(line, i + 1, seps) + 1
  IN IF /\ i + 1 <= Len(line) /\ line[i + 1] \in seps
        /\ j <= Len(line) /\ line[j] \in CapWord
     THEN ChainEnd(line, j, seps, one)
     ELSE i

\* re.search(r'([A-Z][A-Za-z]+(?: sep [A-Z][A-Za-z]+)+)', line).group(1)
LocationMatch(line, seps, one) ==
  LET starts == { i \in 1..Len(line) :
                    line[i] \in CapWord /\ ChainEnd(line, i, seps, one) > i }
  IN IF starts = {} THEN <<>>
     ELSE SubSeq(line, Min(starts), ChainEnd(line, Min(starts), seps, one))

\* CVParser, lines 133-147: the location from line k on.
RECURSIVE LocationScan(_, _)
LocationScan(lines, k) ==
  IF k > Len(lines) \/ k > LocationLines THEN <<>>
  ELSE LET line == Strip(lines[k])
           upper == LocationMatch(line, {"-", SP, NL}, TRUE)
           mixed == LocationMatch(line, {"-", ",", SP, NL}, FALSE)
       IN IF SeparatedPair(line, Caps2End, Caps2Start)
          THEN (IF upper # <<>> THEN upper ELSE LocationScan(lines, k + 1))
          ELSE IF /\ SeparatedPair(line, CapLowEnd, CapLowStart)
                  /\ ~Occurs(<<"Contact">>, line)
                  /\ mixed # <<>>
                  /\ Count(line, "@") = 0 /\ Count(line, "+") = 0
          THEN mixed
          ELSE LocationScan(lines, k + 1)

\* The contact mapping: the keys that were found, with their values.
Found(vals) == [k \in { k \in DOMAIN vals : vals[k] # <<>> } |-> vals[k]]

\* CVParser.extract_contact_info
extract_contact_info(text) ==
  Found([email |-> email_search(text), phone |-> phone_search(text),
         linkedin |-> linkedin_search(text),
         location |-> LocationScan(SplitLines(text), 1)])

\* CVParserDocling: the places a segment between "|" may name, and the
\* places a whole line may name.
segment_locations ==
  { <<"Turkey">>, <<"USA">>, <<"UK">>, <<"Germany">>, <<"France">>, <<"Spain">>,
    <<"Italy">>, <<"Istanbul">>, <<"Ankara">>, <<"New", SP, "York">>,
    <<"London">>, <<"Paris">>, <<"Berlin">>, <<"California">>, <<"Texas">>,
    <<"Canada">>, <<"Australia">>, <<"India">>, <<"China">> }

line_locations ==
  { <<"Turkey">>, <<"USA">>, <<"UK">>, <<"Germany">>, <<"France">>, <<"Spain">>,
    <<"Italy">>, <<"Istanbul">>, <<"Ankara">>, <<"New", SP, "York">>,
    <<"London">>, <<"Paris">>, <<"Berlin">> }

\* re.match(r'^([A-Z][a-zA-Z\s]+,\s*[A-Z][a-zA-Z]+)$', s)
CityCountry(s) ==
  /\ Len(s) >= 3
  /\ s[Len(s)] \in CapWord
  /\ s[1] \in Letters \cap UpperStart
  /\ \E c \in 2..(Len(s) - 1) :
       /\ s[c] = ","
       /\ \A k \in (c + 1)..(Len(s) - 1) : IsSpace(s[k])
       /\ \A k \in 1..(c - 1) : s[k] \in Letters \/ IsSpace(s[k])
       /\ StrLen(SubSeq(s, 1, c - 1)) >= 2

\* CVParserDocling, lines 222-251: the location from line k on, given the
\* name that extract_name returns.
RECURSIVE DoclingLocationScan(_, _, _)
DoclingLocationScan(lines, k, name) ==
  IF k > Len(lines) \/ k > LocationLines THEN <<>>
  ELSE LET line_stripped == Strip(lines[k])
           segments == Split(lines[k], {"|"})
           hits == { j \in 1..Len(segments) :
                       /\ CityCountry(Strip(segments[j]))
                       /\ AnyIn(segment_locations, Strip(segments[j])) }
       IN IF \/ line_stripped = name
             \/ /\ Occurs(name, line_stripped)
                /\ StrLen(line_stripped) < StrLen(name) + 5
          THEN DoclingLocationScan(lines, k + 1, name)
          ELSE IF Count(lines[k], "|") > 0 /\ hits # {}
          THEN Strip(segments[Min(hits)])
          ELSE IF CityCountry(line_stripped) /\ AnyIn(line_locations, line_stripped)
          THEN line_stripped
          ELSE DoclingLocationScan(lines, k + 1, name)

\* CVParserDocling.extract_contact_info
docling_extract_contact_info(text) ==
  Found([email |-> email_search(text), phone |-> phone_search(text),
         linkedin |-> linkedin_search(text),
         location |-> DoclingLocationScan(SplitLines(text), 1, extract_name(text))])

-----------------------------------------------------------------------------
(* extract_summary, the same in CVParser and in CVParserDocling *)

\* The number of words after which the summary stops growing.
SummaryWords == 50

\* (Certified|experience|years) under re.IGNORECASE
summary_starters == { <<"certified">>, <<"experience">>, <<"years">> }

summary_headers == { "skills", "experience", "education", "certifications", "languages" }

\* ^(Skills|Experience|Education|Certifications|Languages)[:]*$
IsSummaryStop(line) ==
  /\ line # <<>>
  /\ Lower(line[1]) \in summary_headers
  /\ \A k \in 2..Len(line) : line[k] = ":"

\* Lines 179-182: a line that is added while capturing.
IsSummaryLine(line) ==
  /\ line # <<>> /\ StrLen(line) > 10
  /\ line[1] \notin {"-", BULLET, "·"}
  /\ \A k \in 1..Len(line) : line[k] \notin FourDigits

\* len(' '.join(summary_lines).split())
RECURSIVE WordCount(_)
WordCount(ls) == IF ls = <<>> THEN 0 ELSE Len(Words(ls[1])) + WordCount(Tail(ls))

\* Lines 162-186: the loop from line k on; the lines collected.
RECURSIVE SummaryWalk(_, _, _, _)
SummaryWalk(lines, k, capturing, summary_lines) ==
  IF k > Len(lines) THEN summary_lines
  ELSE LET line_stripped == Strip(lines[k])
           more == IF IsSummaryLine(line_stripped)
                   THEN Append(summary_lines, line_stripped) ELSE summary_lines
       IN IF /\ ~capturing
             /\ AnyIn(summary_starters, LowerSeq(line_stripped))
             /\ StrLen(line_stripped) > 20
          THEN SummaryWalk(lines, k + 1, TRUE, Append(summary_lines, line_stripped))
          ELSE IF ~capturing THEN SummaryWalk(lines, k + 1, FALSE, summary_lines)
          ELSE IF IsSummaryStop(line_stripped) THEN summary_lines
          ELSE IF WordCount(more) > SummaryWords THEN more
          ELSE SummaryWalk(lines, k + 1, TRUE, more)

\* ' '.join(lines)
RECURSIVE JoinSpace(_)
JoinSpace(ls) ==
  IF ls = <<>> THEN <<>>
  ELSE IF Len(ls) = 1 THEN ls[1]
  ELSE ls[1] \o <<SP>> \o JoinSpace(Tail(ls))

\* re.sub(r'\s+', ' ', s)
OneSpace(s) ==
  Flat([k \in 1..Len(s) |->
          IF ~IsSpace(s[k]) THEN <<s[k]>>
          ELSE IF k > 1 /\ IsSpace(s[k - 1]) THEN <<>> ELSE <<SP>>])

\* re.sub(r'^[a-z]+[a-z0-9]*\s+', '', s) on a str with single blanks.
DropHandle(s) ==
  IF Len(s) >= 2 /\ s[1] \in LowerWord /\ IsSpace(s[2])
  THEN SubSeq(s, 3, Len(s)) ELSE s

\* (Top Skills|Certifications|Languages) under re.IGNORECASE begins at atom k.
SummaryCutAt(s, k) ==
  \/ HasPrefix(Lower(s[k]), "certifications")
  \/ HasPrefix(Lower(s[k]), "languages")
  \/ /\ k + 2 <= Len(s)
     /\ HasSuffix(Lower(s[k]), "top") /\ s[k + 1] = SP
     /\ HasPrefix(Lower(s[k + 2]), "skills")

\* re.sub(r'\s*(Top Skills|Certifications|Languages).*', '', s).strip()
CutSummary(s) ==
  LET cuts == { k \in 1..Len(s) : SummaryCutAt(s, k) }
  IN Strip(IF cuts = {} THEN s ELSE SubSeq(s, 1, Min(cuts) - 1))

\* extract_summary on the text; <<>> is the empty summary.
extract_summary(text) ==
  CutSummary(DropHandle(OneSpace(JoinSpace(
    SummaryWalk(SplitLines(text), 1, FALSE, <<>>)))))

-----------------------------------------------------------------------------
(* extract_certifications and extract_education: the section patterns *)

\* The first index at or after k whose atom is not of S.
RunStop(text, k, S) == RunEnd(text, k, S) + 1

\* `$`: the end of the text, or the line break that ends it.
AtEnd(text, q) == q > Len(text) \/ (q = Len(text) /\ text[q] = NL)

\* \nWord for one of the words, under re.IGNORECASE, at index q.
StopWordAt(text, q, words) ==
  /\ q + 1 <= Len(text) /\ text[q] = NL
  /\ \E w \in words : HasPrefix(Lower(text[q + 1]), w)

\* \n\n[A-Z][a-z]+\s+[A-Z] under re.IGNORECASE at index q.
BlankStopAt(text, q) ==
  /\ q + 4 <= Len(text)
  /\ text[q] = NL /\ text[q + 1] = NL
  /\ text[q + 2] \in Alpha
  /\ IsSpace(text[q + 3])
  /\ SkipSp(text, q + 3) <= Len(text)
  /\ text[SkipSp(text, q + 3)] \in LetterStart

\* (.+?)(?=stop): the group that begins at g.  blank = TRUE adds the
\* \n\n[A-Z][a-z]+\s+[A-Z] alternative.
Group(text, g, words, blank) ==
  LET ends == { e \in g..Len(text) :
                  \/ AtEnd(text, e + 1)
                  \/ StopWordAt(text, e + 1, words)
                  \/ blank /\ BlankStopAt(text, e + 1) }
  IN SubSeq(text, g, Min(ends))

\* The head word ends atom p: Word under re.IGNORECASE, then [:\n] or [:\s].
HeadAt(text, p, heads) == \E h \in heads : HasSuffix(Lower(text[p]), h)

\* CVParser: Word[:\n]+(.+?) from atom p on; where the group begins, 0
\* when the pattern does not match here.
GroupStart(text, p, heads) ==
  LET stop == RunStop(text, p + 1, {":", NL})
  IN IF ~HeadAt(text, p, heads) \/ stop = p + 1 THEN 0
     ELSE IF stop <= Len(text) THEN stop
     ELSE IF stop - 1 > p + 1 THEN stop - 1
     ELSE 0

\* CVParserDocling: Word[:\s]*\n(.+?) from atom p on.
DoclingGroupStart(text, p, heads) ==
  LET stop == RunStop(text, p + 1, {":", SP, NL})
      breaks == { n \in (p + 1)..(stop - 1) : text[n] = NL /\ n < Len(text) }
  IN IF ~HeadAt(text, p, heads) \/ breaks = {} THEN 0 ELSE Max(breaks) + 1

\* The stripped lines of the section that the leftmost match of the
\* pattern captures; <<>> without a match.
section_lines(text, heads, words, blank) ==
  LET at == { p \in 1..Len(text) : GroupStart(text, p, heads) # 0 }
  IN IF at = {} THEN <<>>
     ELSE StrippedLines(Group(text, GroupStart(text, Min(at), heads), words, blank))

docling_section_lines(text, heads, words) ==
  LET at == { p \in 1..Len(text) : DoclingGroupStart(text, p, heads) # 0 }
  IN IF at = {} THEN <<>>
     ELSE StrippedLines(
            Group(text, DoclingGroupStart(text, Min(at), heads), words, FALSE))

cert_heads == { "certification", "certifications" }

\* \nEducation|\nExperience
cert_stops == { "education", "experience" }

cert_noise == { <<"page", SP>>, <<"www", ".">>, <<"http">> }

\* CVParser.extract_certifications
extract_certifications(text) ==
  SelectSeq(section_lines(text, cert_heads, cert_stops, TRUE),
            LAMBDA c : \A n \in cert_noise : ~StartsWith(LowerSeq(c), n))

docling_cert_noise ==
  cert_noise \cup { <<"for", SP, "full", SP, "list">> }

\* \nLANGUAGES|\nADDITIONAL|\nEDUCATION|\nEXPERIENCE
docling_cert_stops == { "languages", "additional", "education", "experience" }

\* The lines that end the list (line 404), lower-cased.
docling_cert_breaks ==
  { <<"languages">>, <<"additional", SP, "information">>, <<"education">>,
    <<"experience">> }

\* Lines 399-406: the certificates kept from index k on.
RECURSIVE FilterCerts(_, _)
FilterCerts(certs, k) ==
  IF k > Len(certs) THEN <<>>
  ELSE IF (\E n \in docling_cert_noise : StartsWith(LowerSeq(certs[k]), n))
          \/ StrLen(certs[k]) < 5
       THEN FilterCerts(certs, k + 1)
  ELSE IF LowerSeq(certs[k]) \in docling_cert_breaks THEN <<>>
  ELSE <<certs[k]>> \o FilterCerts(certs, k + 1)

\* CVParserDocling.extract_certifications
docling_extract_certifications(text) ==
  FilterCerts(docling_section_lines(text, cert_heads, docling_cert_stops), 1)

degree_words ==
  { <<"bachelor">>, <<"master">>, <<"phd">>, <<"degree">>, <<"diploma">> }

\* re.search(r'\d{4}', line)
HasFourDigits(line) == \E k \in 1..Len(line) : line[k] \in FourDigits

\* if current_edu: education.append(current_edu)
Flush(education, current_edu) ==
  IF current_edu # EmptyDict THEN Append(education, current_edu) ELSE education

\* CVParser, lines 330-348: the loop from line k on.
RECURSIVE EduWalk(_, _, _, _)
EduWalk(lines, k, current_edu, education) ==
  IF k > Len(lines) THEN Flush(education, current_edu)
  ELSE LET line == lines[k] IN
    IF AnyIn(degree_words, LowerSeq(line))
    THEN EduWalk(lines, k + 1, SetKey(EmptyDict, "degree", Str(line)),
                 Flush(education, current_edu))
    ELSE IF HasFourDigits(line)
    THEN EduWalk(lines, k + 1,
                 IF HasKey(current_edu, "period") THEN current_edu
                 ELSE SetKey(current_edu, "period", Str(line)), education)
    ELSE IF StrLen(line) > 5 /\ ~HasPrefix(line[1], "Page")
    THEN EduWalk(lines, k + 1,
                 IF ~HasKey(current_edu, "institution")
                 THEN SetKey(current_edu, "institution", Str(line))
                 ELSE IF ~HasKey(current_edu, "details")
                 THEN SetKey(current_edu, "details", Str(line))
                 ELSE current_edu, education)
    ELSE EduWalk(lines, k + 1, current_edu, education)

\* \nExperience|\nCertifications
edu_stops == { "experience", "certifications" }

\* CVParser.extract_education
extract_education(text) ==
  EduWalk(section_lines(text, {"education"}, edu_stops, FALSE), 1, EmptyDict, <<>>)

\* \nEXPERIENCE|\nCERTIFICATIONS|\nSKILLS
docling_edu_stops == { "experience", "certifications", "skills" }

\* The lines that end the section (line 429), lower-cased.
docling_edu_breaks ==
  { <<"experience">>, <<"certifications">>, <<"skills">>, <<"languages">> }

\* CVParserDocling, lines 428-448: the loop from line k on.
RECURSIVE DoclingEduWalk(_, _, _, _)
DoclingEduWalk(lines, k, current_edu, education) ==
  IF k > Len(lines) THEN Flush(education, current_edu)
  ELSE LET line == lines[k] IN
    IF LowerSeq(line) \in docling_edu_breaks THEN Flush(education, current_edu)
    ELSE IF \E n \in cert_noise : StartsWith(LowerSeq(line), n)
    THEN DoclingEduWalk(lines, k + 1, current_edu, education)
    ELSE IF AnyIn(degree_words, LowerSeq(line))
    THEN DoclingEduWalk(lines, k + 1, SetKey(EmptyDict, "degree", Str(line)),
                        Flush(education, current_edu))
    ELSE IF HasFourDigits(line) /\ ~HasKey(current_edu, "period")
    THEN DoclingEduWalk(lines, k + 1, SetKey(current_edu, "period", Str(line)),
                        education)
    ELSE IF StrLen(line) > 5
    THEN DoclingEduWalk(lines, k + 1,
                 IF ~HasKey(current_edu, "institution")
                 THEN SetKey(current_edu, "institution", Str(line))
                 ELSE IF ~HasKey(current_edu, "details") /\ HasKey(current_edu, "period")
                 THEN SetKey(current_edu, "details", Str(line))
                 ELSE current_edu, education)
    ELSE DoclingEduWalk(lines, k + 1, current_edu, education)

\* CVParserDocling.extract_education: the second pattern matches what the
\* first one does, and is tried when the first one gives no entry.
docling_extract_education(text) ==
  DoclingEduWalk(docling_section_lines(text, {"education"}, docling_edu_stops),
                 1, EmptyDict, <<>>)

-----------------------------------------------------------------------------
(* Parser objects and their calls *)

\* `self.full_text or self._extract_raw_text()`: the stored text when it is
\* not empty, the document's text otherwise.
TextOf(p) == IF full_text[p] # <<>> THEN full_text[p] ELSE pdf

\* _extract_raw_text reads the document only when no text is stored.
Reads(p) == full_text[p] = <<>>

\* A reader that goes to PyMuPDF only when the Docling library is missing:
\* a conversion that fails is not caught.
FallsBackWhenMissing(p) ==
  cls[p] = "CVParserDocling" /\ Reads(p) /\ docling = "missing"

\* CVParserDocling reads through PyMuPDF when Docling is missing or fails.
FallsBack(p) == cls[p] = "CVParserDocling" /\ Reads(p) /\ docling # "text"

\* self.page_count once the text is read: CVParser keeps no page count.
PageCountAfter(p) ==
  IF Reads(p) /\ cls[p] # "CVParser" THEN pages ELSE page_count[p]

\* A reader label that is set anew by every call.
ParserAfterReset(p) ==
  IF FallsBack(p) THEN "PyMuPDF (Docling fallback)" ELSE "Docling"

\* self.actually_used_parser once the text is read.
ParserAfter(p) ==
  IF FallsBack(p) THEN "PyMuPDF (Docling fallback)" ELSE actually_used_parser[p]

NoCall == [obj |-> 0, op |-> "", exc |-> "", val |-> <<>>]

NoReply == [status |-> "none", body |-> <<>>]

\* A call of `op` on object p that returned val, or raised exc, after the
\* LLM request (if it made one) ended as r.  The call leaves the object
\* holding the text it read; a record parse() returned is recorded.
Returned(p, op, exc, val, r) ==
  /\ full_text' = [full_text EXCEPT ![p] = TextOf(p)]
  /\ page_count' = [page_count EXCEPT ![p] = PageCountAfter(p)]
  /\ actually_used_parser' = [actually_used_parser EXCEPT ![p] = ParserAfter(p)]
  /\ ret' = [obj |-> p, op |-> op, exc |-> exc, val |-> val]
  /\ parsed' = IF op = "parse" /\ exc = ""
                THEN [parsed EXCEPT ![p] = Append(@, val)]
                ELSE parsed
  /\ reply' = r
  /\ UNCHANGED <<pdf, cls, pages, docling, req, uploads, results>>

Call(p, op, exc, val) == Returned(p, op, exc, val, NoReply)

\* The upload requests, and a request that was never made.
Requests == {1, 2}

NoResponse == [status |-> 0, body |-> <<>>]

NoRequest ==
  [pc |-> "idle", file |-> <<>>, doc |-> <<>>, parser_type |-> "",
   format |-> "", schema |-> "", cv_data |-> <<>>, output_data |-> <<>>,
   page_count |-> 0, response |-> NoResponse, wrote |-> {}]

\* The endpoint has served nothing: both folders are empty.
NoUploads ==
  /\ req = [r \in Requests |-> NoRequest]
  /\ uploads = EmptyDict
  /\ results = EmptyDict

\* The objects as constructed: nothing read, nothing returned.
Objects(classes) ==
  /\ cls \in classes
  /\ full_text = [p \in Parsers |-> <<>>]
  /\ page_count = [p \in Parsers |-> 0]
  /\ actually_used_parser =
       [p \in Parsers |-> IF cls[p] = "CVParserDocling" THEN "Docling" ELSE ""]
  /\ ret = NoCall
  /\ parsed = [p \in Parsers |-> <<>>]
  /\ reply = NoReply

Fresh(classes) == Objects(classes) /\ NoUploads

\* The document's page count and the state of the Docling library.
Env(counts, states) ==
  /\ pages \in counts
  /\ docling \in states

CVParser_extract_experience(p) ==
  /\ cls[p] = "CVParser"
  /\ Call(p, "extract_experience", "", extract_experience(TextOf(p)))

Docling_extract_experience(p) ==
  /\ cls[p] = "CVParserDocling"
  /\ LET r == docling_extract_experience(TextOf(p))
     IN Call(p, "extract_experience", r.exc, r.val)

CVParser_extract_skills(p) ==
  /\ cls[p] = "CVParser"
  /\ Call(p, "extract_skills", "", extract_skills(TextOf(p)))

Docling_extract_skills(p) ==
  /\ cls[p] = "CVParserDocling"
  /\ Call(p, "extract_skills", "", docling_extract_skills(TextOf(p)))

CVParser_extract_languages(p) ==
  /\ cls[p] = "CVParser"
  /\ Call(p, "extract_languages", "", extract_languages(TextOf(p)))

Docling_extract_languages(p) ==
  /\ cls[p] = "CVParserDocling"
  /\ Call(p, "extract_languages", "", docling_extract_languages(TextOf(p)))

CVParser_extract_name(p) ==
  /\ cls[p] = "CVParser"
  /\ Call(p, "extract_name", "", extract_name(TextOf(p)))

Docling_extract_name(p) ==
  /\ cls[p] = "CVParserDocling"
  /\ Call(p, "extract_name", "", extract_name(TextOf(p)))

CVParser_extract_contact_info(p) ==
  /\ cls[p] = "CVParser"
  /\ Call(p, "extract_contact_info", "", extract_contact_info(TextOf(p)))

Docling_extract_contact_info(p) ==
  /\ cls[p] = "CVParserDocling"
  /\ Call(p, "extract_contact_info", "", docling_extract_contact_info(TextOf(p)))

-----------------------------------------------------------------------------
(* parse() of the heuristic parsers *)

\* os.path.basename(self.pdf_path)
FileName == <<"cv", ".", "pdf">>

\* The fields of a record up to the first extractor that raises: parse()
\* builds the dict in source order and an exception leaves it unbuilt.
CVParser_record(text) ==
  [file_name |-> FileName,
   personal_info |-> [name |-> extract_name(text),
                      contact |-> extract_contact_info(text)],
   summary |-> extract_summary(text),
   skills |-> extract_skills(text),
   languages |-> extract_languages(text),
   certifications |-> extract_certifications(text),
   education |-> extract_education(text),
   experience |-> extract_experience(text)]

\* CVParserDocling.parse: the experience scan may raise; the record carries
\* the page count and the reader in its metadata.
Docling_record(text, experiences, count, parser) ==
  [file_name |-> FileName,
   personal_info |-> [name |-> extract_name(text),
                      contact |-> docling_extract_contact_info(text)],
   summary |-> extract_summary(text),
   skills |-> docling_extract_skills(text),
   languages |-> docling_extract_languages(text),
   certifications |-> docling_extract_certifications(text),
   education |-> docling_extract_education(text),
   experience |-> experiences,
   metadata |-> [page_count |-> count, parser |-> parser]]

CVParser_parse(p) ==
  /\ cls[p] = "CVParser"
  /\ Len(parsed[1]) + Len(parsed[2]) < MaxParses
  /\ Call(p, "parse", "", CVParser_record(TextOf(p)))

Docling_parse(p) ==
  /\ cls[p] = "CVParserDocling"
  /\ Len(parsed[1]) + Len(parsed[2]) < MaxParses
  /\ LET r == docling_extract_experience(TextOf(p))
     IN IF r.exc # ""
        THEN Call(p, "parse", r.exc, <<>>)
        ELSE Call(p, "parse", "",
                  Docling_record(TextOf(p), r.val, PageCountAfter(p), ParserAfter(p)))

-----------------------------------------------------------------------------
(* The LLM parsers: the request, the response, the fallback *)

\* The atom of a markdown code fence (three backquotes).
FENCE == "~~~"

\* The JSON texts the model may answer with, as single atoms, and what
\* json.loads makes of them ("" and [] are the empty sequence).
J_full ==
  "{\"name\": \"Jane Doe\", \"email\": \"jane.doe@example.com\", \"phone\": \"\", \"location\": \"Istanbul, Turkey\", \"linkedin\": \"\", \"summary\": \"\", \"skills\": [\"Python\", \"SQL\"], \"languages\": [], \"certifications\": [], \"education\": [], \"experience\": []}"
J_partial == "{\"name\": \"Jane Doe\", \"skills\": [\"Python\"]}"
J_array == "[]"
J_cut == "{\"name\": \"Jane Doe\", \"skills\": [\"Pyth"
J_mistyped == "{\"name\": \"Jane Doe\", \"skills\": \"Python\"}"

JsonValues ==
  (J_full :>
     [kind |-> "object",
      val |-> [name |-> <<"Jane", SP, "Doe">>,
               email |-> <<"jane", ".", "doe", "@", "example", ".", "com">>,
               phone |-> <<>>,
               location |-> <<"Istanbul", ",", SP, "Turkey">>,
               linkedin |-> <<>>,
               summary |-> <<>>,
               skills |-> << <<"Python">>, <<"SQL">> >>,
               languages |-> <<>>,
               certifications |-> <<>>,
               education |-> <<>>,
               experience |-> <<>>]])
  @@ (J_partial :>
     [kind |-> "object",
      val |-> [name |-> <<"Jane", SP, "Doe">>, skills |-> << <<"Python">> >>]])
  @@ (J_array :> [kind |-> "array", val |-> <<>>])
  @@ (J_mistyped :>
     [kind |-> "object",
      val |-> [name |-> <<"Jane", SP, "Doe">>, skills |-> <<"Python">>]])

\* How a request ends: the HTTP status and the text of the answer, or no
\* status when the connection fails.
Answer(body) == [status |-> "200", body |-> body]
Failure(status) == [status |-> status, body |-> <<>>]

\* _call_groq: the answer's content, stripped; any failure is raised again
\* as an Exception whose message names its kind.
call_groq(r) ==
  IF r.status = "200" THEN [exc |-> "", val |-> Strip(r.body)]
  ELSE IF r.status = "401"
    THEN [exc |-> "Invalid Groq API key. Please check your API key.", val |-> <<>>]
  ELSE IF r.status = "429"
    THEN [exc |-> "Groq API rate limit exceeded. Please try again later.", val |-> <<>>]
  ELSE [exc |-> "Groq API error: " \o r.status, val |-> <<>>]

\* _call_ollama
call_ollama(r) ==
  IF r.status = "200" THEN [exc |-> "", val |-> Strip(r.body)]
  ELSE IF r.status = "connection"
    THEN [exc |-> "Cannot connect to Ollama. Make sure Ollama is running (ollama serve)",
          val |-> <<>>]
  ELSE [exc |-> "Ollama API error: " \o r.status, val |-> <<>>]

\* re.sub(r'^<pre>\s*', '', s): s without the leading atoms pre and the
\* white space after them, s itself when it does not begin with them.
DropLeading(s, pre) ==
  IF Len(s) >= Len(pre) /\ SubSeq(s, 1, Len(pre)) = pre
  THEN LStrip(SubSeq(s, Len(pre) + 1, Len(s)))
  ELSE s

\* re.sub(r'\s*<fence>$', '', s)
DropClosingFence(s) ==
  IF s # <<>> /\ s[Len(s)] = FENCE
  THEN RStrip(SubSeq(s, 1, Len(s) - 1))
  ELSE s

\* The response with its markdown code block removed.
CleanResponse(response) ==
  LET s == Strip(response)
  IN IF s # <<>> /\ s[1] = FENCE
     THEN Strip(DropClosingFence(DropLeading(DropLeading(s, <<FENCE, "json">>),
                                             <<FENCE>>)))
     ELSE s

\* json.loads(s) raises JSONDecodeError unless s is one JSON text.
Decodes(s) == Len(s) = 1 /\ s[1] \in DOMAIN JsonValues

\* A fallback that recovers the e-mail address only.
fallback_without_phone(text) ==
  [kind |-> "object",
   val |-> [name |-> <<>>,
            email |-> email_search(text),
            phone |-> <<>>,
            location |-> <<>>,
            linkedin |-> <<>>,
            summary |-> <<>>,
            skills |-> <<>>,
            languages |-> <<>>,
            certifications |-> <<>>,
            education |-> <<>>,
            experience |-> <<>>]]

\* _fallback_extraction: the first e-mail address and the first phone
\* number of the text, everything else empty.
fallback_extraction(text) ==
  [kind |-> "object",
   val |-> [name |-> <<>>,
            email |-> email_search(text),
            phone |-> FirstPhone(SubSeq(phone_patterns, 1, 2), Units(text)),
            location |-> <<>>,
            linkedin |-> <<>>,
            summary |-> <<>>,
            skills |-> <<>>,
            languages |-> <<>>,
            certifications |-> <<>>,
            education |-> <<>>,
            experience |-> <<>>]]

\* _extract_with_llm: the decoded answer, or the fallback when the request
\* raised or the answer is not JSON.
extract_with_llm(text, called) ==
  IF called.exc # "" THEN fallback_extraction(text)
  ELSE IF Decodes(CleanResponse(called.val))
    THEN JsonValues[CleanResponse(called.val)[1]]
  ELSE fallback_extraction(text)

\* cv_data.get(key, default)
Get(d, key, default) == IF key \in DOMAIN d THEN d[key] ELSE default

\* The record parse() builds from cv_data.  The three timings of the
\* metadata are wall-clock measurements and are left out.
LLM_record(d, count, parser) ==
  [file_name |-> FileName,
   personal_info |-> [name |-> Get(d, "name", <<>>),
                      contact |-> [email |-> Get(d, "email", <<>>),
                                   phone |-> Get(d, "phone", <<>>),
                                   location |-> Get(d, "location", <<>>),
                                   linkedin |-> Get(d, "linkedin", <<>>)]],
   summary |-> Get(d, "summary", <<>>),
   skills |-> Get(d, "skills", <<>>),
   languages |-> Get(d, "languages", <<>>),
   certifications |-> Get(d, "certifications", <<>>),
   education |-> Get(d, "education", <<>>),
   experience |-> Get(d, "experience", <<>>),
   metadata |-> [page_count |-> count, parser |-> parser]]

\* parse() of an LLM parser whose request ended as r: a JSON answer that is
\* not an object has no `get`.
LLM_parse_as(p, r, called, parser) ==
  LET cv_data == extract_with_llm(TextOf(p), called)
  IN IF cv_data.kind # "object"
     THEN Returned(p, "parse", "AttributeError", <<>>, r)
     ELSE Returned(p, "parse", "",
                   LLM_record(cv_data.val, PageCountAfter(p), parser), r)

Groq_parse(p, r) ==
  /\ cls[p] = "CVParserGroq"
  /\ Len(parsed[1]) + Len(parsed[2]) < MaxParses
  /\ LLM_parse_as(p, r, call_groq(r), "Groq (llama-3.3-70b-versatile)")

LLM_parse(p, r) ==
  /\ cls[p] = "CVParserLLM"
  /\ Len(parsed[1]) + Len(parsed[2]) < MaxParses
  /\ LLM_parse_as(p, r, call_ollama(r), "LLM (llama3.1)")

-----------------------------------------------------------------------------
(* Documents for the experience scans *)

\* Bound on the number of lines of the documents enumerated in full.
MaxLines == 3

\* All sequences of at most n elements of V.
SeqsUpTo(V, n) == UNION { [1..k -> V] : k \in 0..n }

\* k copies of x.
Repeat(x, k) == [i \in 1..k |-> x]

L_coca == <<"Coca", "-", "Cola", SP, "Icecek">>
L_avon == <<"Avon", SP, "Cosmetics">>
L_finance_manager == <<"Finance", SP, "Manager">>
L_product_owner == <<"Product", SP, "Owner">>
L_senior_engineer == <<"Senior", SP, "Engineer">>
L_date_duration ==
  <<"March", SP, "2019", SP, "-", SP, "Present", SP,
    "(", "5", SP, "years", SP, "2", SP, "months", ")">>
L_date == <<"June", SP, "2015", SP, "-", SP, "March", SP, "2019">>
L_location == <<"Istanbul", ",", SP, "Turkey">>
L_filler == <<"Budget", SP, "planning", SP, "and", SP, "reporting", ".">>
L_blank == <<>>
L_pmp == <<"PMP", SP, "Certification">>
L_experience == <<"EXPERIENCE">>
L_education == <<"EDUCATION">>
L_acme == <<"Acme", SP, "Inc", ",", SP, "Istanbul">>
L_bullet == <<BULLET, SP, "Built", SP, "the", SP, "tools">>
L_year == <<"2019", SP, "-", SP, "2021">>

\* Lines of the whole-document scan.
ScanLines ==
  { L_coca, L_avon, L_finance_manager, L_product_owner, L_date_duration,
    L_location, L_filler, L_pmp }

\* Lines of an Experience section.
SectionLines ==
  { L_senior_engineer, L_acme, L_year, L_bullet, L_filler, L_education }

\* Lines without a company, a title, a date or a skip word.
NeutralLines == { L_filler, L_blank }

\* A company line, gap - 1 neutral lines, a title line, a date line with a
\* duration: the title is the gap-th line after the company line.
Scenario3(company, filler, gap, title, date) ==
  <<company>> \o Repeat(filler, gap - 1) \o <<title, date>>

\* Company lines and title lines of the scenario.
CompanyLines == { L_coca, L_avon }
TitleLines == { L_finance_manager, L_product_owner }

Scenario3Docs ==
  { JoinLines(Scenario3(c, f, gap, t, L_date_duration) \o tail) :
      c \in CompanyLines, t \in TitleLines, f \in NeutralLines,
      gap \in 1..(CompanyWindow + 1), tail \in { <<>>, <<L_filler>> } }

\* The text is such a document: the title is the gap-th line after the
\* company line, and neutral lines alone follow the date line.
IsScenario3(text, gap) ==
  LET ls == SplitLines(text) IN
  /\ Len(ls) >= gap + 2
  /\ ls[1] \in CompanyLines
  /\ \A k \in 2..gap : ls[k] \in NeutralLines
  /\ ls[gap + 1] \in TitleLines
  /\ ls[gap + 2] = L_date_duration
  /\ \A k \in (gap + 3)..Len(ls) : ls[k] \in NeutralLines

ExperienceDocs ==
  { JoinLines(ls) : ls \in SeqsUpTo(ScanLines, MaxLines) }
  \cup { JoinLines(<<L_experience>> \o ls) : ls \in SeqsUpTo(SectionLines, MaxLines) }
  \cup Scenario3Docs

InitExperience ==
  /\ pdf \in ExperienceDocs
  /\ Fresh({ (1 :> "CVParser") @@ (2 :> "CVParserDocling") })
  /\ Env({1}, {"text"})

NextExperience ==
  \E p \in Parsers :
    \/ CVParser_extract_experience(p)
    \/ Docling_extract_experience(p)

SpecExperience == InitExperience /\ [][NextExperience]_vars

-----------------------------------------------------------------------------
(* Properties of the experience scans *)

\* The entry holds a company and a position, neither empty.
Complete(e) ==
  /\ HasKey(e, "company") /\ e["company"] # ""
  /\ HasKey(e, "position") /\ e["position"] # ""

\* C1: every entry that extract_experience returns, in the whole-document
\* scan of CVParser and in the explicit-section scan of CVParserDocling
\* alike, has a non-empty company and a non-empty position.
C1_EntryCompleteness ==
  (ret.op = "extract_experience" /\ ret.exc = "") =>
    \A k \in 1..Len(ret.val) : Complete(ret.val[k])

\* The whole-document scan has returned, for a scenario document with the
\* title `gap` lines after the company line, exactly one entry: the company
\* line, the title line, and the date range with its duration as the period.
Scenario3Result(gap) ==
  (/\ IsScenario3(pdf, gap)
   /\ ret.op = "extract_experience"
   /\ cls[ret.obj] = "CVParser")
  => /\ Len(ret.val) = 1
     /\ ret.val[1].company = Str(SplitLines(pdf)[1])
     /\ ret.val[1].position = Str(SplitLines(pdf)[gap + 1])
     /\ ret.val[1].period = "March 2019 - Present (5 years 2 months)"

-----------------------------------------------------------------------------
(* Documents for the skills and languages extractors *)

L_skills == <<"Skills">>
L_top_skills == <<"Top", SP, "Skills", ":">>
L_python_sql == <<"Python", ",", SP, "SQL", ",", SP, "Leadership">>
L_dup == <<"python", ",", SP, "in", SP, "SQL", ",", SP, "PYTHON">>
L_team == <<"Team", SP, "player", SP, "with", SP, "Leadership">>
L_it == <<"IT", SP, "Governance", SP, "and", SP, "Audit", SP, "planning">>
L_label == <<"Core", SP, "Skill", ":", SP, "Data", SP, "analysis">>
L_audit == <<"Audit", SP, "planning">>
L_teamlead == <<"Team", SP, "Leadership", SP, "players">>
L_languages == <<"LANGUAGES">>
L_languages_colon == <<"Languages", ":", SP, "German", "-", "B2">>
L_spoken ==
  <<"English", SP, "-", SP, "Native", ",", SP, "Java", ",", SP,
    "Turkish", SP, "-", SP, "Fluent">>
L_turkish == <<"Turkish", SP, "-", SP, "Fluent", ",", SP, "SQL">>
L_certifications == <<"Certifications">>
L_additional == <<"ADDITIONAL", SP, "INFORMATION">>

\* "Tool 1, Tool 2, ...": the items numbered from..to of a long list.
RECURSIVE ToolLine(_, _)
ToolLine(from, to) ==
  IF from > to THEN <<>>
  ELSE <<"Tool", SP, ToString(from)>>
         \o (IF from < to THEN <<",", SP>> ELSE <<>>) \o ToolLine(from + 1, to)

\* Lines of the skills documents.
SkillLines ==
  { L_skills, L_top_skills, L_python_sql, L_dup, L_team, L_it, L_label,
    L_certifications, L_blank }

\* Lines that the auxiliary skill patterns match.
FallbackLines == { L_team, L_it, L_label, L_audit, L_teamlead }

\* Lines of the languages documents.
LanguageLines ==
  { L_languages, L_languages_colon, L_spoken, L_turkish, L_certifications,
    L_additional, L_python_sql, L_blank }

\* A header and a list of n items, ten to a line: more items than the cap
\* of either list once n is large enough.
LongList(header, n) ==
  JoinLines(<<header>> \o
    [k \in 1..((n + 9) \div 10) |->
       ToolLine(10 * (k - 1) + 1, IF 10 * k <= n THEN 10 * k ELSE n)])

\* A header, `lead` and a list of n items, one to a line.
TallList(header, lead, n) ==
  JoinLines(<<header, lead>> \o [k \in 1..n |-> ToolLine(k, k)])

ListDocs ==
  { JoinLines(ls) : ls \in SeqsUpTo(SkillLines, MaxLines) }
  \cup { JoinLines(ls) : ls \in SeqsUpTo(FallbackLines, MaxLines) }
  \cup { JoinLines(ls) : ls \in SeqsUpTo(LanguageLines, MaxLines) }
  \cup { LongList(h, n) : h \in {L_skills, L_languages}, n \in {9, 10, 11, 24, 25, 26, 30} }
  \cup { TallList(h, L_spoken, n) : h \in {L_skills, L_languages}, n \in {8, 9, 10, 11, 12} }

InitLists ==
  /\ pdf \in ListDocs
  /\ Fresh({ (1 :> "CVParser") @@ (2 :> "CVParserDocling") })
  /\ Env({1}, {"text"})

NextLists ==
  \E p \in Parsers :
    \/ CVParser_extract_skills(p)
    \/ Docling_extract_skills(p)
    \/ CVParser_extract_languages(p)
    \/ Docling_extract_languages(p)

SpecLists == InitLists /\ [][NextLists]_vars

-----------------------------------------------------------------------------
(* Properties of the skills and languages extractors *)

\* C3: a skills list returned by a heuristic extractor has at most 25
\* entries and a languages list at most 10, whatever the text.
C3_ListCaps ==
  /\ ret.op = "extract_skills" => Len(ret.val) <= 25
  /\ ret.op = "extract_languages" => Len(ret.val) <= 10

\* extract_skills has returned 25 skills of a text in which it found more.
C3_Witness ==
  /\ ret.op = "extract_skills"
  /\ Len(Unique(section_skills(pdf), {})) > 25
  /\ Len(ret.val) = 25

\* No two entries are equal but for case.
NoCaseDuplicates(val) ==
  \A i, j \in 1..Len(val) : i # j => Str(LowerSeq(val[i])) # Str(LowerSeq(val[j]))

\* The atom a of the text spells x, or holds x as the part a pattern matched.
Spells(a, x) ==
  a = x \/ \E k \in DOMAIN PartText : k[2] = a /\ PartText[k] = x

\* The entry v stands in the text from atom p on.
StandsAt(text, p, v) ==
  /\ p + Len(v) - 1 <= Len(text)
  /\ \A k \in 1..Len(v) : Spells(text[p + k - 1], v[k])

\* The entries stand in the text one after the other: entry k from an atom
\* after the one entry k - 1 starts at, the first from atom `from` or later.
RECURSIVE InTextOrder(_, _, _)
InTextOrder(text, from, val) ==
  IF val = <<>> THEN TRUE
  ELSE LET at == { p \in from..Len(text) : StandsAt(text, p, val[1]) }
       IN at # {} /\ InTextOrder(text, Min(at) + 1, Tail(val))

\* C4 as stated: the skills list holds no two entries equal but for case,
\* and its entries are in the order in which they occur in the text.
C4_DedupInTextOrder ==
  ret.op = "extract_skills" =>
    NoCaseDuplicates(ret.val) /\ InTextOrder(pdf, 1, ret.val)

\* C4 as amended: the skills list holds no two entries equal but for case;
\* when the Skills section of the text yields the skills, they are in the
\* order of the section, line by line and left to right.  (Skills found by
\* the auxiliary patterns come pattern by pattern instead.)
C4_DedupInSectionOrder ==
  ret.op = "extract_skills" =>
    /\ NoCaseDuplicates(ret.val)
    /\ section_skills(pdf) # <<>> => InTextOrder(pdf, 1, ret.val)

\* extract_skills has returned the skills of a section that names one twice
\* in different case.
C4_Witness ==
  /\ ret.op = "extract_skills"
  /\ section_skills(pdf) # <<>>
  /\ Len(ret.val) >= 2
  /\ Len(ret.val) < Len(section_skills(pdf))

\* The text is a LANGUAGES header followed by the line
\* "English - Native, Java, Turkish - Fluent".
IsScenario5(text) ==
  LET ls == SplitLines(text) IN
  /\ Len(ls) >= 2
  /\ ls[1] = L_languages
  /\ ls[2] = L_spoken
  /\ \A k \in 3..Len(ls) : ls[k] = L_blank

\* C8: for such a text extract_languages returns the two spoken languages
\* in order and leaves out the programming language alone.
C8_SpokenLanguagesOnly ==
  (ret.op = "extract_languages" /\ IsScenario5(pdf)) =>
    ret.val = << <<"English", SP, "-", SP, "Native">>,
                 <<"Turkish", SP, "-", SP, "Fluent">> >>

-----------------------------------------------------------------------------
(* Documents for the name and contact extractors *)

L_contact_name == <<"Contact", SP, "John", SP, "Michael", SP, "Smith">>
L_contact_twice == <<"Contact", SP, "John", SP, "Contact", SP, "Smith">>
L_contact_short == <<"Contact", SP, "John">>
L_contact_padded == <<SP, SP, "Contact", SP, SP, "Jane", SP, "Doe", SP>>
L_jane_doe == <<"Jane", SP, "Doe">>
L_summary == <<"Summary">>
L_email == <<"jane", ".", "doe", "@", "example", ".", "com">>

L_merve == <<"Merve", SP, "YILDIZ", SP, "KOSE">>
L_phone == <<"+", "1", "-", "415", "-", "555", "-", "0100">>
L_mobile == <<"Mobile", ":", SP, "+", "905322437822">>
L_linkedin ==
  <<"www", ".", "linkedin", ".", "com", "/", "in", "/", "jane", "-", "doe">>
L_caps_location == <<"ISTANBUL", "-", "TURKEY">>
L_piped ==
  <<"Ankara", ",", SP, "Turkey", SP, "|", SP, "jane", "@", "example", ".", "com">>

\* Lines of the name documents.
NameDocLines ==
  { L_contact_name, L_contact_twice, L_contact_short, L_contact_padded,
    L_jane_doe, L_senior_engineer, L_summary, L_email, L_blank }

\* Lines of the contact documents.
ContactDocLines ==
  { L_jane_doe, L_merve, L_email, L_phone, L_mobile, L_linkedin, L_location,
    L_caps_location, L_piped }

\* n lines that give no name, then a Contact line and a name line: the
\* Contact line is the (n + 1)-th line of the text.
LateContact(n, contact) ==
  JoinLines(Repeat(L_email, n) \o <<contact, L_jane_doe>>)

PersonalDocs ==
  { JoinLines(ls) : ls \in SeqsUpTo(NameDocLines, MaxLines) }
  \cup { JoinLines(ls) : ls \in SeqsUpTo(ContactDocLines, MaxLines) }
  \cup { LateContact(n, c) : n \in 8..15, c \in { L_contact_name, L_contact_twice } }

InitPersonal ==
  /\ pdf \in PersonalDocs
  /\ Fresh({ (1 :> "CVParser") @@ (2 :> "CVParserDocling") })
  /\ Env({1}, {"text"})

NextPersonal ==
  \E p \in Parsers :
    \/ CVParser_extract_name(p)
    \/ Docling_extract_name(p)
    \/ CVParser_extract_contact_info(p)
    \/ Docling_extract_contact_info(p)

SpecPersonal == InitPersonal /\ [][NextPersonal]_vars

-----------------------------------------------------------------------------
(* Properties of the name and contact extractors *)

\* The line begins with the word "Contact" and a blank.
BeginsWithContact(line) == StartsWith(Strip(line), <<"Contact", SP>>)

\* What follows the leading "Contact " of the line, white space trimmed.
RemainderAfterContact(line) == Strip(Tail(Strip(line)))

\* The line begins with "Contact " and at least two words follow.
IsContactLine(line) ==
  BeginsWithContact(line) /\ Len(Words(RemainderAfterContact(line))) >= 2

\* C9: when one of the first ten lines begins with "Contact " and at least
\* two words follow, extract_name returns exactly the remainder of the
\* first such line.
C9_ContactRemainder ==
  ret.op = "extract_name" =>
    LET ls == SplitLines(pdf) IN
    \A k \in 1..Len(ls) :
      (/\ k <= ContactLines
       /\ IsContactLine(ls[k])
       /\ \A j \in 1..(k - 1) : ~IsContactLine(ls[j]))
        => ret.val = RemainderAfterContact(ls[k])

-----------------------------------------------------------------------------
(* Documents for parse *)

L_profile ==
  <<"Certified", SP, "engineer", SP, "with", SP, "10", SP, "years", SP, "of",
    SP, "experience">>
L_interests == <<"janedoe", SP, "likes", SP, "Languages", SP, "and", SP, "tools">>
L_bachelor == <<"Bachelor", SP, "of", SP, "Science">>
L_university == <<"Bogazici", SP, "University">>
L_page == <<"Page", SP, "1", SP, "of", SP, "2">>
L_certifications_colon == <<"Certifications", ":">>
L_education_colon == <<"Education", ":", SP>>

\* What a CV opens with: nothing, a name with its contact lines, a
\* Contact line, an upper-case surname with a mobile number.
ParseHeads ==
  { <<>>,
    <<L_jane_doe, L_email, L_phone, L_location>>,
    <<L_contact_name, L_piped>>,
    <<L_merve, L_mobile, L_linkedin>> }

\* The sections that follow: none, a summary with skills and languages,
\* certifications and education, an Experience section with and without a
\* position line before the company, an experience list without a header.
ParseBodies ==
  { <<>>,
    <<L_summary, L_profile, L_skills, L_python_sql, L_languages, L_spoken>>,
    <<L_certifications_colon, L_pmp, L_blank, L_education_colon, L_bachelor,
      L_university, L_year>>,
    <<L_experience, L_senior_engineer, L_acme, L_year, L_bullet>>,
    <<L_experience, L_acme, L_bullet>>,
    <<L_coca, L_finance_manager, L_date_duration, L_location, L_filler>> }

ParseDocs == { JoinLines(h \o b) : h \in ParseHeads, b \in ParseBodies }

\* The documents given to the LLM parsers.
LLMDocs == { JoinLines(h) : h \in ParseHeads }

\* What the model may answer: the whole record, the same in a json code
\* block, a partial record in a plain code block, a truncated record, a
\* JSON array, a record whose skills are a string and not a list, nothing.
Bodies ==
  { <<J_full>>,
    <<FENCE, "json", NL, J_full, NL, FENCE>>,
    <<FENCE, NL, J_partial, NL, FENCE, NL>>,
    <<J_cut>>,
    <<J_array>>,
    <<J_mistyped>>,
    <<>> }

GroqReplies ==
  { Answer(b) : b \in Bodies } \cup { Failure(f) : f \in {"401", "429", "500"} }

OllamaReplies ==
  { Answer(b) : b \in Bodies } \cup { Failure(f) : f \in {"connection", "500"} }

\* Two objects of one heuristic class on one document, or a Groq and an
\* Ollama object on one document.
InitParse ==
  \/ /\ pdf \in ParseDocs
     /\ Fresh({ [p \in Parsers |-> "CVParser"] })
     /\ Env({1}, {"text"})
  \/ /\ pdf \in ParseDocs
     /\ Fresh({ [p \in Parsers |-> "CVParserDocling"] })
     /\ Env({1, 2}, {"text", "missing", "failing"})
  \/ /\ pdf \in LLMDocs
     /\ Fresh({ (1 :> "CVParserGroq") @@ (2 :> "CVParserLLM") })
     /\ Env({2}, {"text"})

NextParse ==
  \E p \in Parsers :
    \/ CVParser_parse(p)
    \/ Docling_parse(p)
    \/ \E r \in GroqReplies : Groq_parse(p, r)
    \/ \E r \in OllamaReplies : LLM_parse(p, r)

SpecParse == InitParse /\ [][NextParse]_vars

-----------------------------------------------------------------------------
(* Properties of parse *)

HeuristicClasses == { "CVParser", "CVParserDocling" }

LLMClasses == { "CVParserGroq", "CVParserLLM" }

RecordKeys ==
  { "file_name", "personal_info", "summary", "skills", "languages",
    "certifications", "education", "experience" }

ContactKeys == { "email", "phone", "linkedin", "location" }

\* The last call was parse() on an object of one of the classes.
ParseCalled(classes) == ret.op = "parse" /\ cls[ret.obj] \in classes

\* C2: parse() of a heuristic parser never raises, whatever the text, and
\* returns a record with file_name, personal_info.name,
\* personal_info.contact, summary, skills, languages, certifications,
\* education and experience.
C2_HeuristicParseCompletes ==
  ParseCalled(HeuristicClasses) =>
    /\ ret.exc = ""
    /\ RecordKeys \subseteq DOMAIN ret.val
    /\ { "name", "contact" } \subseteq DOMAIN ret.val.personal_info

\* C5: the records two parse() calls of a heuristic class return for one
\* text are identical, whether one object made both calls or two objects
\* one call each.
C5_SameTextSameRecord ==
  \A p, q \in Parsers :
    (cls[p] \in HeuristicClasses /\ cls[q] = cls[p]) =>
      \A i \in DOMAIN parsed[p], j \in DOMAIN parsed[q] : parsed[p][i] = parsed[q][j]

\* One Docling object parsed a CV twice after falling back to PyMuPDF and
\* found a name, skills and experience.
C5_Witness_ParsedTwice ==
  \E p \in Parsers :
    /\ cls[p] = "CVParserDocling"
    /\ docling = "failing"
    /\ Len(parsed[p]) = 2
    /\ parsed[p][2].personal_info.name # <<>>
    /\ parsed[p][2].experience # <<>>

\* C6: every key of the contact mapping of a record parse() returned is one
\* of email, phone, linkedin, location and holds a value that was found,
\* never an empty one.
C6_ContactKeysOnlyWhenFound ==
  \A p \in Parsers : \A k \in DOMAIN parsed[p] :
    LET contact == parsed[p][k].personal_info.contact
    IN /\ DOMAIN contact \subseteq ContactKeys
       /\ \A key \in DOMAIN contact : contact[key] # <<>>

\* The request failed, or the answer is not JSON once its code block
\* markers are removed.
LLMFailed ==
  \/ reply.status \notin { "200", "none" }
  \/ reply.status = "200" /\ ~Decodes(CleanResponse(reply.body))

\* The first match of the fallback's two phone patterns in the text.
first_phone(text) ==
  LET u == Units(text)
      national == Search(phone_patterns[1], u)
      digits == Search(phone_patterns[2], u)
  IN IF national # <<>> THEN Strip(national) ELSE Strip(digits)

\* C10: when the request fails or the answer is not JSON, parse() of an LLM
\* parser returns a record whose name and summary are empty, whose skills,
\* experience and education are empty lists, and whose email and phone are
\* the first matches in the source text (empty when there is none).
C10_FallbackRecord ==
  (ParseCalled(LLMClasses) /\ LLMFailed) =>
    /\ ret.exc = ""
    /\ RecordKeys \subseteq DOMAIN ret.val
    /\ ret.val.personal_info.name = <<>>
    /\ ret.val.summary = <<>>
    /\ ret.val.skills = <<>>
    /\ ret.val.experience = <<>>
    /\ ret.val.education = <<>>
    /\ ret.val.personal_info.contact.email = email_search(pdf)
    /\ ret.val.personal_info.contact.phone = first_phone(pdf)

\* A truncated answer on a text with an address and a number: both are
\* recovered.
C10_Witness_TruncatedAnswer ==
  /\ ParseCalled(LLMClasses)
  /\ reply = Answer(<<J_cut>>)
  /\ ret.exc = ""
  /\ Str(ret.val.personal_info.contact.email) = Str(L_email)
  /\ Str(ret.val.personal_info.contact.phone) = Str(L_phone)

\* The answers that are JSON but not the record asked for: an array, and an
\* object whose skills are a string.
IllShapedAnswers == { J_array, J_mistyped }

\* The request was answered with JSON of the wrong shape.
IllShaped ==
  /\ reply.status = "200"
  /\ Decodes(CleanResponse(reply.body))
  /\ CleanResponse(reply.body)[1] \in IllShapedAnswers

\* C11: when the answer is JSON of the wrong shape, parse() of an LLM parser
\* does not raise and returns the record of the fallback extractor: no
\* name, no skills, the e-mail address of the source text.
C11_IllShapedRecovers ==
  (ParseCalled(LLMClasses) /\ IllShaped) =>
    /\ ret.exc = ""
    /\ ret.val.personal_info.name = <<>>
    /\ ret.val.skills = <<>>
    /\ ret.val.personal_info.contact.email = email_search(pdf)

\* The request of the last parse() failed: an HTTP error status, or no
\* connection.
RequestFailed == reply.status \notin { "200", "none" }

\* What the request function raised for the last reply.
RaisedByCall ==
  IF cls[ret.obj] = "CVParserGroq" THEN call_groq(reply).exc ELSE call_ollama(reply).exc

\* C12: a failed request reaches the caller of parse() as a failure, and the
\* failure is the one the request function raised, which tells a rejected
\* key from a rate limit from a refused connection.
C12_FailureSurfaced ==
  (ParseCalled(LLMClasses) /\ RequestFailed) =>
    /\ ret.exc # ""
    /\ ret.exc = RaisedByCall

-----------------------------------------------------------------------------
(* The schema mapper (schema_mapper.py) *)

\* JSON values carry their type: a str, a number, a boolean, null, a list,
\* a dict.
JStr(s) == [str |-> s]
JNum(n) == [num |-> n]
JBool(b) == [bool |-> b]
JNull == [null |-> TRUE]
JArr(a) == [arr |-> a]
JObj(o) == [obj |-> o]

IsStr(v) == DOMAIN v = {"str"}
IsArr(v) == DOMAIN v = {"arr"}
IsObj(v) == DOMAIN v = {"obj"}

\* sep.join(ss) for a list of strings
RECURSIVE JoinStr(_, _)
JoinStr(sep, ss) ==
  IF ss = <<>> THEN ""
  ELSE IF Len(ss) = 1 THEN ss[1]
  ELSE ss[1] \o sep \o JoinStr(sep, Tail(ss))

\* any(w in field_lower for w in words)
Hinted(words, field_lower) == \E w \in words : Occurs(<<w>>, field_lower)

\* The hint words of an array item (lines 70-83).
item_company_hints == { "company", "employer" }
item_position_hints == { "position", "role", "title" }
item_period_hints == { "duration", "period", "date", "time" }
item_location_hints == { "location", "city" }
item_duty_hints == { "responsibility", "responsibilities", "duty", "duties" }

\* The hint words of the record (lines 96-157).
summary_hints == { "summary", "objective" }
education_hints == { "education", "degree" }
position_hints == { "experience", "position", "job" }
company_hints == { "company", "employer" }

\* Lines 127-128, in the order they are tried.
common_langs ==
  << "english", "french", "turkish", "spanish", "german", "italian",
     "portuguese", "russian", "chinese", "japanese", "arabic", "hindi",
     "korean" >>

\* common_lang.capitalize()
Capitalized ==
  [english |-> "English", french |-> "French", turkish |-> "Turkish",
   spanish |-> "Spanish", german |-> "German", italian |-> "Italian",
   portuguese |-> "Portuguese", russian |-> "Russian", chinese |-> "Chinese",
   japanese |-> "Japanese", arabic |-> "Arabic", hindi |-> "Hindi",
   korean |-> "Korean"]

\* Lines 84-88: the first three responsibilities joined, "" when none.
DutiesOf(item) ==
  LET responsibilities == Get(item, "responsibilities", <<>>)
  IN IF responsibilities # <<>>
     THEN JoinStr("; ", Take(responsibilities, 3))
     ELSE ""

\* Lines 69-93: a hint resolved against an experience entry.
item_field(field_type, item) ==
  LET field_lower == LowerSeq(field_type) IN
  IF Hinted(item_company_hints, field_lower)
  THEN JStr(Get(item, "company", ""))
  ELSE IF Hinted(item_position_hints, field_lower)
  THEN JStr(Get(item, "position", ""))
  ELSE IF Hinted(item_period_hints, field_lower)
  THEN JStr(IF Get(item, "period", "") # "" THEN item.period
            ELSE Get(item, "date", ""))
  ELSE IF Hinted(item_location_hints, field_lower)
  THEN JStr(Get(item, "location", ""))
  ELSE IF Hinted(item_duty_hints, field_lower)
  THEN JStr(DutiesOf(item))
  ELSE IF Str(field_lower) = "string" THEN JStr("")
  ELSE IF Str(field_lower) = "number" THEN JNum(0)
  ELSE JStr(Str(field_type))

\* Lines 118-119: the stripped skills that are not blank, joined.
RECURSIVE CleanSkills(_)
CleanSkills(skills) ==
  IF skills = <<>> THEN <<>>
  ELSE IF Strip(skills[1]) # <<>>
  THEN <<Str(Strip(skills[1]))>> \o CleanSkills(Tail(skills))
  ELSE CleanSkills(Tail(skills))

\* Lines 129-134: for each entry, each common language it names.
RECURSIVE LangsOf(_, _)
LangsOf(lang_lower, k) ==
  IF k > Len(common_langs) THEN <<>>
  ELSE IF Occurs(<<common_langs[k]>>, lang_lower)
  THEN <<Capitalized[common_langs[k]]>> \o LangsOf(lang_lower, k + 1)
  ELSE LangsOf(lang_lower, k + 1)

RECURSIVE CleanLangs(_)
CleanLangs(languages) ==
  IF languages = <<>> THEN <<>>
  ELSE LangsOf(Strip(LowerSeq(languages[1])), 1) \o CleanLangs(Tail(languages))

\* Lines 136-141: the first occurrence of each name.
RECURSIVE FirstOfEach(_, _)
FirstOfEach(langs, seen) ==
  IF langs = <<>> THEN <<>>
  ELSE IF langs[1] \in seen THEN FirstOfEach(Tail(langs), seen)
  ELSE <<langs[1]>> \o FirstOfEach(Tail(langs), seen \cup {langs[1]})

\* d.get(key, '') of a string the record holds as text
TextAt(d, key) == Str(Get(d, key, <<>>))

\* Lines 96-173: a hint resolved against the record.
record_field(field_type, cv_data) ==
  LET field_lower == LowerSeq(field_type)
      personal_info == Get(cv_data, "personal_info", EmptyDict)
      contact == Get(personal_info, "contact", EmptyDict)
      education == Get(cv_data, "education", <<>>)
      experience == Get(cv_data, "experience", <<>>)
  IN
  IF Hinted({"name"}, field_lower) THEN JStr(TextAt(personal_info, "name"))
  ELSE IF Hinted({"email"}, field_lower) THEN JStr(TextAt(contact, "email"))
  ELSE IF Hinted({"phone"}, field_lower) THEN JStr(TextAt(contact, "phone"))
  ELSE IF Str(field_lower) = "location" \/ Hinted({"address"}, field_lower)
  THEN JStr(TextAt(contact, "location"))
  ELSE IF Str(field_lower) = "linkedin" \/ Hinted({"profile"}, field_lower)
  THEN JStr(TextAt(contact, "linkedin"))
  ELSE IF Hinted(summary_hints, field_lower)
  THEN JStr(TextAt(cv_data, "summary"))
  ELSE IF Hinted({"skill"}, field_lower)
  THEN JStr(JoinStr(", ", CleanSkills(Get(cv_data, "skills", <<>>))))
  ELSE IF Hinted({"language"}, field_lower)
  THEN JStr(JoinStr(", ",
         FirstOfEach(CleanLangs(Get(cv_data, "languages", <<>>)), {})))
  ELSE IF Hinted(education_hints, field_lower)
  THEN JStr(IF education # <<>> THEN Get(education[1], "degree", "") ELSE "")
  ELSE IF Hinted(position_hints, field_lower)
  THEN JStr(IF experience # <<>> THEN Get(experience[1], "position", "") ELSE "")
  ELSE IF Hinted(company_hints, field_lower)
  THEN JStr(IF experience # <<>> THEN Get(experience[1], "company", "") ELSE "")
  ELSE IF Str(field_lower) = "string" THEN JStr("")
  ELSE IF Str(field_lower) = "number" THEN JNum(0)
  ELSE IF Str(field_lower) = "boolean" THEN JBool(FALSE)
  ELSE IF Str(field_lower) = "array" THEN JArr(<<>>)
  ELSE JStr(Str(field_type))

get_cv_field(field_type, cv_data, is_array_item) ==
  IF is_array_item THEN item_field(field_type, cv_data)
  ELSE record_field(field_type, cv_data)

\* Lines 176-179
get_array_data(cv_data) == Get(cv_data, "experience", <<>>)

\* Lines 26-44: the walk over the schema.
RECURSIVE map_value(_, _, _)
map_value(schema_value, cv_data, is_array_item) ==
  IF IsObj(schema_value)
  THEN JObj([key \in DOMAIN schema_value.obj |->
               map_value(schema_value.obj[key], cv_data, is_array_item)])
  ELSE IF IsArr(schema_value)
  THEN IF Len(schema_value.arr) > 0
       THEN LET template == schema_value.arr[1]
                array_data == get_array_data(cv_data)
            IN JArr([k \in 1..Len(array_data) |->
                       map_value(template, array_data[k], TRUE)])
       ELSE JArr(<<>>)
  ELSE IF IsStr(schema_value)
  THEN get_cv_field(schema_value.str, cv_data, is_array_item)
  ELSE schema_value

\* The hints of the schemas below.
H_full_name == <<"Full", SP, "Name">>
H_email == <<"email">>
H_phone == <<"phone">>
H_location == <<"location">>
H_summary == <<"summary">>
H_skills == <<"skills">>
H_languages == <<"languages">>
H_degree == <<"degree">>
H_job_title == <<"job", SP, "title">>
H_company == <<"company">>
H_position == <<"position">>
H_period == <<"period">>
H_responsibilities == <<"responsibilities">>
H_string == <<"string">>
H_number == <<"number">>
H_boolean == <<"boolean">>
H_array == <<"array">>
H_other == <<"TBD">>

\* The schema texts a caller may send, and what json.loads makes of each
\* that is JSON: a flat skeleton, a skeleton of type keywords, an array
\* skeleton, an array skeleton of type keywords, an empty array skeleton, an
\* array skeleton within an array template, an array at the top, a skeleton
\* with a leaf that is no hint, a text cut short, a number, null.
S_flat ==
  "{\"full_name\": \"Full Name\", \"mail\": \"email\", \"phone\": \"phone\", \"city\": \"location\", \"about\": \"summary\", \"skills\": \"skills\", \"speaks\": \"languages\", \"degree\": \"degree\", \"title\": \"job title\", \"employer\": \"company\"}"
S_types ==
  "{\"a\": \"string\", \"b\": \"number\", \"c\": \"boolean\", \"d\": \"array\", \"e\": \"TBD\"}"
S_jobs ==
  "{\"jobs\": [{\"employer\": \"company\", \"role\": \"position\", \"when\": \"period\", \"where\": \"location\", \"tasks\": \"responsibilities\"}]}"
S_job_types ==
  "{\"jobs\": [{\"a\": \"string\", \"b\": \"number\", \"c\": \"boolean\", \"d\": \"array\", \"e\": \"TBD\"}]}"
S_no_jobs == "{\"jobs\": []}"
S_nested ==
  "{\"jobs\": [{\"role\": \"position\", \"projects\": [{\"title\": \"job title\"}]}]}"
S_top_array == "[{\"role\": \"position\"}]"
S_literal == "{\"version\": 1, \"name\": \"Full Name\"}"
S_cut == "{\"name\": "
S_scalar == "42"
S_null == "null"

TypeHints ==
  [a |-> JStr(H_string), b |-> JStr(H_number), c |-> JStr(H_boolean),
   d |-> JStr(H_array), e |-> JStr(H_other)]

SchemaValues ==
  (S_flat :>
     JObj([full_name |-> JStr(H_full_name), mail |-> JStr(H_email),
           phone |-> JStr(H_phone), city |-> JStr(H_location),
           about |-> JStr(H_summary), skills |-> JStr(H_skills),
           speaks |-> JStr(H_languages), degree |-> JStr(H_degree),
           title |-> JStr(H_job_title), employer |-> JStr(H_company)]))
  @@ (S_types :> JObj(TypeHints))
  @@ (S_jobs :>
     JObj([jobs |-> JArr(<< JObj([employer |-> JStr(H_company),
                                  role |-> JStr(H_position),
                                  when |-> JStr(H_period),
                                  where |-> JStr(H_location),
                                  tasks |-> JStr(H_responsibilities)]) >>)]))
  @@ (S_job_types :> JObj([jobs |-> JArr(<< JObj(TypeHints) >>)]))
  @@ (S_no_jobs :> JObj([jobs |-> JArr(<<>>)]))
  @@ (S_nested :>
     JObj([jobs |-> JArr(<< JObj([role |-> JStr(H_position),
                                  projects |->
                                    JArr(<< JObj([title |-> JStr(H_job_title)]) >>)]) >>)]))
  @@ (S_top_array :> JArr(<< JObj([role |-> JStr(H_position)]) >>))
  @@ (S_literal :> JObj([version |-> JNum(1), name |-> JStr(H_full_name)]))
  @@ (S_scalar :> JNum(42))
  @@ (S_null :> JNull)

SchemaTexts == DOMAIN SchemaValues \cup { S_cut }

\* Lines 9-46: [exc, val]; a text json.loads rejects raises ValueError.
map_to_schema(cv_data, schema) ==
  IF schema \notin DOMAIN SchemaValues
  THEN [exc |-> "Invalid JSON schema provided", val |-> JNull]
  ELSE [exc |-> "", val |-> map_value(SchemaValues[schema], cv_data, FALSE)]

-----------------------------------------------------------------------------
(* The Markdown renderer (cv_to_markdown.py) *)

\* The labels of the contact lines; the pictograph that opens each of them
\* is written by its name.
EmailLabel == "(e-mail) **Email:** "
PhoneLabel == "(mobile phone) **Phone:** "
LocationLabel == "(round pushpin) **Location:** "
LinkedInLabel == "(briefcase) **LinkedIn:** "

\* Lines 26-33: a labelled contact line when the key holds a value.
ContactLine(contact, key, label) ==
  IF Get(contact, key, <<>>) # <<>>
  THEN <<label>> \o contact[key] \o <<SP, SP>>
  ELSE <<>>

\* Lines 24-34
ContactPart(contact) ==
  IF contact = EmptyDict THEN <<>>
  ELSE <<"## Contact Information", NL>>
       \o ContactLine(contact, "email", EmailLabel)
       \o ContactLine(contact, "phone", PhoneLabel)
       \o ContactLine(contact, "location", LocationLabel)
       \o ContactLine(contact, "linkedin", LinkedInLabel)
       \o <<NL>>

\* Lines 37-40
SummaryPart(summary) ==
  IF summary = <<>> THEN <<>>
  ELSE <<"## Professional Summary", NL>> \o summary \o <<NL, NL>>

\* f"- {item}\n" for each item of a list of texts
RECURSIVE Items(_)
Items(list) ==
  IF list = <<>> THEN <<>>
  ELSE <<"- ">> \o list[1] \o <<NL>> \o Items(Tail(list))

\* Lines 43-64: a list under its heading, left out when the list is empty.
ListPart(heading, list) ==
  IF list = <<>> THEN <<>>
  ELSE heading \o <<NL>> \o Items(list) \o <<NL>>

\* Lines 71-78, 90-93: a labelled line when the entry holds a value.
EntryLine(entry, key, opening, closing) ==
  IF Get(entry, key, "") # ""
  THEN <<opening, entry[key]>> \o closing
  ELSE <<>>

\* Lines 70-79
RECURSIVE EducationEntries(_)
EducationEntries(education) ==
  IF education = <<>> THEN <<>>
  ELSE LET edu == education[1] IN
       EntryLine(edu, "degree", "### ", <<NL>>)
       \o EntryLine(edu, "institution", "**Institution:** ", <<SP, SP, NL>>)
       \o EntryLine(edu, "period", "**Period:** ", <<SP, SP, NL>>)
       \o EntryLine(edu, "details", "**Details:** ", <<SP, SP, NL>>)
       \o <<NL>>
       \o EducationEntries(Tail(education))

\* f"- {resp}\n" for each responsibility
RECURSIVE Duties(_)
Duties(responsibilities) ==
  IF responsibilities = <<>> THEN <<>>
  ELSE <<"- ", responsibilities[1], NL>> \o Duties(Tail(responsibilities))

\* Lines 85-100
RECURSIVE ExperienceEntries(_)
ExperienceEntries(experience) ==
  IF experience = <<>> THEN <<>>
  ELSE LET exp == experience[1]
           responsibilities == Get(exp, "responsibilities", <<>>)
       IN <<"### ", Get(exp, "position", "Position"), " at ",
            Get(exp, "company", "Company"), NL>>
          \o EntryLine(exp, "period", "**Period:** ", <<SP, SP, NL>>)
          \o EntryLine(exp, "location", "**Location:** ", <<SP, SP, NL>>)
          \o (IF responsibilities # <<>>
              THEN <<NL, "**Responsibilities:**", NL>> \o Duties(responsibilities)
              ELSE <<>>)
          \o <<NL>>
          \o ExperienceEntries(Tail(experience))

\* Lines 6-106: the text of the rendering.
cv_to_markdown(cv_data) ==
  LET personal_info == Get(cv_data, "personal_info", EmptyDict)
      skills == Get(cv_data, "skills", <<>>)
      certifications == Get(cv_data, "certifications", <<>>)
      education == Get(cv_data, "education", <<>>)
      experience == Get(cv_data, "experience", <<>>)
  IN <<"# ">> \o Get(personal_info, "name", <<"Resume">>) \o <<NL>>
     \o ContactPart(Get(personal_info, "contact", EmptyDict))
     \o SummaryPart(Get(cv_data, "summary", <<>>))
     \o ListPart(<<"## Skills (", ToString(Len(skills)), ")">>, skills)
     \o ListPart(<<"## Languages">>, Get(cv_data, "languages", <<>>))
     \o ListPart(<<"## Certifications (", ToString(Len(certifications)), ")">>,
                 certifications)
     \o (IF education = <<>> THEN <<>>
         ELSE <<"## Education", NL>> \o EducationEntries(education))
     \o (IF experience = <<>> THEN <<>>
         ELSE <<"## Work Experience (", ToString(Len(experience)),
                " positions)", NL>> \o ExperienceEntries(experience))
     \o <<"---", NL, "*Generated from: ">>
     \o Get(cv_data, "file_name", <<"CV", ".", "pdf">>) \o <<"*", NL>>

-----------------------------------------------------------------------------
(* The upload endpoint (web_app.py, upload_file) *)

\* werkzeug's secure_filename, as far as the names sent need it: a blank
\* becomes an underscore.
secure_filename(name) ==
  [k \in 1..Len(name) |-> IF name[k] = SP THEN "_" ELSE name[k]]

ALLOWED_EXTENSIONS == { "pdf" }

\* filename.rsplit('.', 1)[1]
Extension(name) ==
  LET dot == CHOOSE k \in 1..Len(name) :
               name[k] = "." /\ \A j \in (k + 1)..Len(name) : name[j] # "."
  IN SubSeq(name, dot + 1, Len(name))

\* Lines 190-191
allowed_file(name) ==
  /\ \E k \in 1..Len(name) : name[k] = "."
  /\ Str(LowerSeq(Extension(name))) \in ALLOWED_EXTENSIONS

\* filename.replace('.pdf', suffix)
RECURSIVE Renamed(_, _)
Renamed(name, suffix) ==
  IF name = <<>> THEN <<>>
  ELSE IF Len(name) >= 2 /\ name[1] = "." /\ name[2] = "pdf"
  THEN <<suffix>> \o Renamed(SubSeq(name, 3, Len(name)), suffix)
  ELSE <<name[1]>> \o Renamed(Tail(name), suffix)

\* The path of a file in its folder, as the key of the folder.
Path(name) == Str(name)

Artifact(r, suffix) == Path(Renamed(secure_filename(req[r].file), suffix))

\* A response: the status and the JSON body.
Error(status, message) == [status |-> status, body |-> [error |-> message]]

\* Lines 535-563: the label of the parser chosen.
parser_used(parser_type) ==
  IF parser_type = "docling" THEN "Docling (Advanced)" ELSE "pdfplumber (Original)"

\* A handler's step changes its own request and, at most, one folder.
Step(r, request, up, res) ==
  /\ req' = [req EXCEPT ![r] = request]
  /\ uploads' = up
  /\ results' = res
  /\ UNCHANGED <<pdf, cls, full_text, ret, parsed, pages, docling, page_count,
                 actually_used_parser, reply>>

\* The request with some of its fields changed.
With(r, changes) ==
  [f \in DOMAIN req[r] |-> IF f \in DOMAIN changes THEN changes[f] ELSE req[r][f]]

\* f.write / json.dump into the results folder by request r.
Written(r, suffix, content) ==
  SetKey(results, Artifact(r, suffix), [by |-> r, content |-> content])

\* Lines 511-529: the checks of the upload, then file.save.
Save(r) ==
  /\ req[r].pc = "received"
  /\ IF req[r].file = <<>>
     THEN Step(r, With(r, [pc |-> "done",
                           response |-> Error(400, "No file selected")]),
               uploads, results)
     ELSE IF ~allowed_file(req[r].file)
     THEN Step(r, With(r, [pc |-> "done",
                           response |-> Error(400, "Only PDF files are allowed")]),
               uploads, results)
     ELSE Step(r, With(r, [pc |-> "saved"]),
               SetKey(uploads, Path(secure_filename(req[r].file)), req[r].doc),
               results)

\* The record parser.parse() returns for the file as it is when it is read:
\* [exc, val].  The parser is made anew for the request.
ParseFile(r) ==
  LET filename == secure_filename(req[r].file)
      text == uploads[Path(filename)]
  IN IF req[r].parser_type = "docling"
     THEN LET e == docling_extract_experience(text)
          IN IF e.exc # "" THEN [exc |-> e.exc, val |-> <<>>]
             ELSE [exc |-> "",
                   val |-> [Docling_record(text, e.val, pages,
                              IF docling = "text" THEN "Docling"
                              ELSE "PyMuPDF (Docling fallback)")
                            EXCEPT !.file_name = filename]]
     ELSE [exc |-> "",
           val |-> [CVParser_record(text) EXCEPT !.file_name = filename]]

\* The schema is applied when the format asks for it and a schema came.
Mapping(r) == req[r].format = "structured-json" /\ req[r].schema # ""

\* Lines 535-573: the parser is chosen and reads the saved file; what parse()
\* raises is answered by the handler at lines 642-643.
Parse(r) ==
  /\ req[r].pc = "saved"
  /\ LET p == ParseFile(r)
     IN IF p.exc # ""
        THEN Step(r, With(r, [pc |-> "done",
                              response |-> Error(500, "'responsibilities'")]),
                  uploads, results)
        ELSE Step(r, With(r, [pc |-> IF Mapping(r) THEN "parsed" ELSE "mapped",
                              cv_data |-> p.val, output_data |-> p.val]),
                  uploads, results)

\* Lines 575-585: the record is mapped and the schema is kept, or the
\* mapping's error is answered.
Map(r) ==
  /\ req[r].pc = "parsed"
  /\ LET m == map_to_schema(req[r].cv_data, req[r].schema)
     IN IF m.exc # ""
        THEN Step(r, With(r, [pc |-> "done",
                              response |->
                                Error(400, "Schema mapping error: " \o m.exc)]),
                  uploads, results)
        ELSE Step(r, With(r, [pc |-> "mapped", output_data |-> m.val,
                              wrote |-> req[r].wrote \cup {"_schema.json"}]),
                  uploads, Written(r, "_schema.json", req[r].schema))

\* Lines 587-599: the page count of the record, or of the saved file.
PageCount(r) ==
  IF HasKey(req[r].cv_data, "metadata")
  THEN req[r].cv_data.metadata.page_count
  ELSE pages

\* Lines 587-606: the page count is taken and the data is written.
Store(r) ==
  /\ req[r].pc = "mapped"
  /\ Step(r, With(r, [pc |-> "stored", page_count |-> PageCount(r),
                      wrote |-> req[r].wrote \cup {"_extracted.json"}]),
          uploads, Written(r, "_extracted.json", req[r].output_data))

\* Lines 608-620: the metadata is written; the timings are left out.
Record(r) ==
  /\ req[r].pc = "stored"
  /\ Step(r, With(r, [pc |-> "recorded",
                      wrote |-> req[r].wrote \cup {"_metadata.json"}]),
          uploads,
          Written(r, "_metadata.json",
                  [page_count |-> req[r].page_count,
                   filename |-> secure_filename(req[r].file),
                   format |-> req[r].format,
                   parser_used |-> parser_used(req[r].parser_type)]))

\* Lines 630-640
Success(r) ==
  [status |-> 200,
   body |-> [success |-> TRUE,
             filename |-> secure_filename(req[r].file),
             result_file |-> Renamed(secure_filename(req[r].file), "_extracted.json"),
             data |-> req[r].output_data,
             page_count |-> req[r].page_count,
             format |-> req[r].format,
             parser_used |-> parser_used(req[r].parser_type)]]

\* Lines 622-640: the rendering is written when asked for, and the request
\* is answered.
Finish(r) ==
  /\ req[r].pc = "recorded"
  /\ IF req[r].format = "markdown"
     THEN Step(r, With(r, [pc |-> "done", response |-> Success(r),
                           wrote |-> req[r].wrote \cup {"_extracted.md"}]),
               uploads,
               Written(r, "_extracted.md", cv_to_markdown(req[r].cv_data)))
     ELSE Step(r, With(r, [pc |-> "done", response |-> Success(r)]),
               uploads, results)

-----------------------------------------------------------------------------
(* The uploads served *)

\* The names files are sent under: two PDF names, a name that is refused.
F_cv == <<"cv", ".", "pdf">>
F_jane == <<"jane", SP, "cv", ".", "pdf">>
F_notes == <<"notes", ".", "txt">>

\* The documents sent: two positions without a header; the sections but
\* experience; an Experience section that starts with a position and one
\* that starts with a company.
U_two ==
  JoinLines(<<L_jane_doe, L_coca, L_finance_manager, L_date_duration,
              L_location, L_avon, L_product_owner, L_date_duration>>)
U_sections ==
  JoinLines(<<L_jane_doe, L_email, L_summary, L_profile, L_skills,
              L_python_sql, L_languages, L_spoken, L_education_colon,
              L_bachelor>>)
U_section ==
  JoinLines(<<L_merve, L_experience, L_senior_engineer, L_acme, L_year,
              L_bullet>>)
U_company_first == JoinLines(<<L_experience, L_acme, L_bullet>>)

UploadDocs == { U_two, U_sections, U_section, U_company_first }

\* The format asked for and the schema sent with it ("" when none is sent).
Option(format, schema) == [format |-> format, schema |-> schema]

Options ==
  { Option("flat-json", ""), Option("flat-json", S_flat), Option("markdown", "") }
  \cup { Option("structured-json", s) : s \in SchemaTexts \cup {""} }

\* What is asked of the Docling parser.
DoclingOptions ==
  { Option("flat-json", ""), Option("markdown", ""),
    Option("structured-json", S_jobs) }

\* A request as it arrives.
Request(file, doc, parser_type, option) ==
  [NoRequest EXCEPT !.pc = "received", !.file = file, !.doc = doc,
                    !.parser_type = parser_type, !.format = option.format,
                    !.schema = option.schema]

\* One request for cv.pdf, of any kind; one request that is refused; two
\* requests at once, the first for cv.pdf and the second with another
\* document, sent under the same name or under a name of its own.
InitUpload ==
  /\ pdf = <<>>
  /\ Objects({ [p \in Parsers |-> "CVParser"] })
  /\ Env({2}, {"text"})
  /\ uploads = EmptyDict
  /\ results = EmptyDict
  /\ \/ \E doc \in UploadDocs, o \in Options :
          req = (1 :> Request(F_cv, doc, "original", o)) @@ (2 :> NoRequest)
     \/ \E doc \in UploadDocs, o \in DoclingOptions :
          req = (1 :> Request(F_cv, doc, "docling", o)) @@ (2 :> NoRequest)
     \/ \E f \in { F_notes, <<>> } :
          req = (1 :> Request(f, U_two, "original", Option("flat-json", "")))
                @@ (2 :> NoRequest)
     \/ \E o \in { Option("flat-json", ""), Option("structured-json", S_jobs) },
           f \in { F_cv, F_jane } :
          req = (1 :> Request(F_cv, U_two, "original", o))
                @@ (2 :> Request(f, U_section, "original", Option("flat-json", "")))

NextUpload ==
  \E r \in Requests :
    \/ Save(r)
    \/ Parse(r)
    \/ Map(r)
    \/ Store(r)
    \/ Record(r)
    \/ Finish(r)

SpecUpload == InitUpload /\ [][NextUpload]_vars

-----------------------------------------------------------------------------
(* Properties of the schema mapper and of the upload endpoint *)

\* A schema text that cannot serve: it is not JSON, or the JSON is neither
\* a mapping, nor an array, nor a hint (a number, null).
Unusable(schema) ==
  \/ schema \notin DOMAIN SchemaValues
  \/ ~(IsObj(SchemaValues[schema]) \/ IsArr(SchemaValues[schema])
       \/ IsStr(SchemaValues[schema]))

\* The handler of r is past line 578: the record is parsed and the schema,
\* which the request asked to apply, has been handed to map_to_schema.
MapCalled(r) ==
  /\ Mapping(r)
  /\ req[r].cv_data # <<>>
  /\ req[r].pc \in { "mapped", "stored", "recorded", "done" }

\* C13: when the schema sent is not valid JSON or is structurally unusable,
\* map_to_schema raises, the request is answered with an error and not with
\* the unmapped record, and the request has written no result artifact.
C13_UnusableSchemaRejected ==
  \A r \in Requests :
    (MapCalled(r) /\ Unusable(req[r].schema)) =>
      /\ map_to_schema(req[r].cv_data, req[r].schema).exc # ""
      /\ req[r].pc = "done"
      /\ req[r].response.status = 400
      /\ req[r].wrote = {}

\* The handler of r has the result of a mapping that did not raise.
Mapped(r) ==
  /\ MapCalled(r)
  /\ req[r].schema \in DOMAIN SchemaValues
  /\ req[r].pc # "done" \/ req[r].response.status = 200

\* Every array skeleton of schema_value, at any depth, stands in `out` as
\* one element per entry of `experience`, element k being the template
\* resolved against entry k; an empty skeleton stands as an empty array.
RECURSIVE ArraysFollow(_, _, _)
ArraysFollow(schema_value, out, experience) ==
  IF IsObj(schema_value)
  THEN /\ IsObj(out)
       /\ DOMAIN out.obj = DOMAIN schema_value.obj
       /\ \A key \in DOMAIN schema_value.obj :
            ArraysFollow(schema_value.obj[key], out.obj[key], experience)
  ELSE IF IsArr(schema_value)
  THEN /\ IsArr(out)
       /\ IF schema_value.arr = <<>> THEN out.arr = <<>>
          ELSE /\ Len(out.arr) = Len(experience)
               /\ \A k \in 1..Len(out.arr) :
                    /\ out.arr[k] = map_value(schema_value.arr[1], experience[k], TRUE)
                    /\ ArraysFollow(schema_value.arr[1], out.arr[k], experience)
  ELSE TRUE

\* C14: for every array skeleton of the schema the mapping gives an array
\* with one element per entry of the record's experience list, element k
\* being the template resolved against entry k; an empty array skeleton
\* gives an empty array.
C14_OneElementPerExperience ==
  \A r \in Requests :
    Mapped(r) =>
      ArraysFollow(SchemaValues[req[r].schema], req[r].output_data,
                   req[r].cv_data.experience)

\* The words by which a hint names a field of the record, and of an
\* experience entry.
record_words ==
  { "name", "email", "phone", "address", "profile", "skill", "language" }
  \cup summary_hints \cup education_hints \cup position_hints \cup company_hints

item_words ==
  item_company_hints \cup item_position_hints \cup item_period_hints
  \cup item_location_hints \cup item_duty_hints

\* The hint names a field known at its place in the schema.
NamesField(hint, is_array_item) ==
  IF is_array_item THEN Hinted(item_words, LowerSeq(hint))
  ELSE \/ Hinted(record_words, LowerSeq(hint))
       \/ Str(LowerSeq(hint)) \in { "location", "linkedin" }

\* The default of a type keyword; the hint itself when it is none.
TypeDefault(hint) ==
  LET keyword == Str(LowerSeq(hint))
  IN IF keyword = "string" THEN JStr("")
     ELSE IF keyword = "number" THEN JNum(0)
     ELSE IF keyword = "boolean" THEN JBool(FALSE)
     ELSE IF keyword = "array" THEN JArr(<<>>)
     ELSE JStr(Str(hint))

\* Every leaf hint of schema_value that names no field stands in `out` as
\* its default, in the schema and in the templates of its arrays.
RECURSIVE DefaultsFollow(_, _, _)
DefaultsFollow(schema_value, out, is_array_item) ==
  IF IsObj(schema_value)
  THEN /\ IsObj(out)
       /\ \A key \in DOMAIN schema_value.obj :
            /\ key \in DOMAIN out.obj
            /\ DefaultsFollow(schema_value.obj[key], out.obj[key], is_array_item)
  ELSE IF IsArr(schema_value)
  THEN /\ IsArr(out)
       /\ \/ schema_value.arr = <<>>
          \/ \A k \in 1..Len(out.arr) :
               DefaultsFollow(schema_value.arr[1], out.arr[k], TRUE)
  ELSE IF IsStr(schema_value) /\ ~NamesField(schema_value.str, is_array_item)
  THEN out = TypeDefault(schema_value.str)
  ELSE TRUE

\* C15: a leaf hint that names no known field resolves to the default of
\* its type keyword ("" for string, 0 for number, false for boolean, [] for
\* array) and to the hint text when it is no keyword, at the top level of
\* the schema and inside an array template.
C15_TypeKeywordDefaults ==
  \A r \in Requests :
    Mapped(r) =>
      DefaultsFollow(SchemaValues[req[r].schema], req[r].output_data, FALSE)

-----------------------------------------------------------------------------
(* Properties of the Markdown renderer *)

\* How often the text x stands in the text md.
Shown(x, md) ==
  Cardinality({ p \in 1..(Len(md) - Len(x) + 1) : SubSeq(md, p, p + Len(x) - 1) = x })

\* The field under its label when it holds a text, nothing otherwise.
Labelled(opening, d, key, closing) ==
  IF Get(d, key, <<>>) # <<>> THEN << opening \o d[key] \o closing >> ELSE <<>>

\* The same for the fields of an education or experience entry.
EntryField(opening, entry, key, closing) ==
  IF Get(entry, key, "") # "" THEN << <<opening, entry[key]>> \o closing >> ELSE <<>>

RECURSIVE ListFields(_)
ListFields(list) ==
  IF list = <<>> THEN <<>>
  ELSE << <<"- ">> \o list[1] \o <<NL>> >> \o ListFields(Tail(list))

RECURSIVE DutyFields(_)
DutyFields(list) ==
  IF list = <<>> THEN <<>>
  ELSE << <<"- ", list[1], NL>> >> \o DutyFields(Tail(list))

RECURSIVE EducationFields(_)
EducationFields(education) ==
  IF education = <<>> THEN <<>>
  ELSE EntryField("### ", education[1], "degree", <<NL>>)
       \o EntryField("**Institution:** ", education[1], "institution", <<>>)
       \o EntryField("**Period:** ", education[1], "period", <<>>)
       \o EntryField("**Details:** ", education[1], "details", <<>>)
       \o EducationFields(Tail(education))

RECURSIVE ExperienceFields(_)
ExperienceFields(experience) ==
  IF experience = <<>> THEN <<>>
  ELSE EntryField("### ", experience[1], "position", <<" at ">>)
       \o EntryField(" at ", experience[1], "company", <<NL>>)
       \o EntryField("**Period:** ", experience[1], "period", <<>>)
       \o EntryField("**Location:** ", experience[1], "location", <<>>)
       \o DutyFields(Get(experience[1], "responsibilities", <<>>))
       \o ExperienceFields(Tail(experience))

\* The populated fields of a record, each as the text that shows it: the
\* value under the label of its field; the metadata are shown by the name
\* of the parser.
PopulatedFields(cv_data) ==
  LET contact == cv_data.personal_info.contact
  IN Labelled(<<"# ">>, cv_data.personal_info, "name", <<NL>>)
     \o Labelled(<<EmailLabel>>, contact, "email", <<>>)
     \o Labelled(<<PhoneLabel>>, contact, "phone", <<>>)
     \o Labelled(<<LocationLabel>>, contact, "location", <<>>)
     \o Labelled(<<LinkedInLabel>>, contact, "linkedin", <<>>)
     \o Labelled(<<"## Professional Summary", NL>>, cv_data, "summary", <<NL>>)
     \o ListFields(cv_data.skills)
     \o ListFields(cv_data.languages)
     \o ListFields(cv_data.certifications)
     \o EducationFields(cv_data.education)
     \o ExperienceFields(cv_data.experience)
     \o Labelled(<<"*Generated from: ">>, cv_data, "file_name", <<"*">>)
     \o (IF HasKey(cv_data, "metadata") /\ cv_data.metadata.parser # ""
         THEN << <<cv_data.metadata.parser>> >> ELSE <<>>)

\* Request r asked for Markdown and its rendering is written.
Rendered(r) ==
  /\ req[r].format = "markdown"
  /\ "_extracted.md" \in req[r].wrote

\* The rendering request r wrote.
MarkdownOf(r) == cv_to_markdown(req[r].cv_data)

\* C16: the rendering shows every populated field of the record exactly
\* once (as often as there are fields that read the same), and it has no
\* Summary heading when the record's summary is empty.
C16_EveryFieldOnce ==
  \A r \in Requests :
    Rendered(r) =>
      LET fields == PopulatedFields(req[r].cv_data)
          md == MarkdownOf(r)
      IN /\ \A k \in 1..Len(fields) :
              Shown(fields[k], md)
                = Cardinality({ j \in 1..Len(fields) : fields[j] = fields[k] })
         /\ req[r].cv_data.summary = <<>> =>
              Shown(<<"## Professional Summary">>, md) = 0

\* The record the parser of request r returns for the document r sent.
OwnRecord(r) ==
  LET filename == secure_filename(req[r].file)
      text == req[r].doc
  IN IF req[r].parser_type = "docling"
     THEN [Docling_record(text, docling_extract_experience(text).val, pages,
                          IF docling = "text" THEN "Docling"
                          ELSE "PyMuPDF (Docling fallback)")
           EXCEPT !.file_name = filename]
     ELSE [CVParser_record(text) EXCEPT !.file_name = filename]

\* The data request r is to be answered with: its own record, or the
\* mapping of its own record to its schema.
OwnData(r) ==
  IF Mapping(r) THEN map_to_schema(OwnRecord(r), req[r].schema).val
  ELSE OwnRecord(r)

\* Request r is answered with its data.
Answered(r) == req[r].pc = "done" /\ req[r].response.status = 200

\* C17: under every interleaving of the requests, the response of a request
\* carries the record extracted from the document that request sent, and
\* the data and the rendering a request has written into the results folder
\* are those of its own document.
C17_RequestsIndependent ==
  /\ \A r \in Requests :
       Answered(r) => req[r].response.body.data = OwnData(r)
  /\ \A name \in DOMAIN results :
       LET r == results[name].by
       IN /\ name = Artifact(r, "_extracted.json") =>
               results[name].content = OwnData(r)
          /\ name = Artifact(r, "_extracted.md") =>
               results[name].content = cv_to_markdown(OwnRecord(r))

-----------------------------------------------------------------------------
(* The education history *)

CVParser_extract_education(p) ==
  /\ cls[p] = "CVParser"
  /\ Call(p, "extract_education", "", extract_education(TextOf(p)))

Docling_extract_education(p) ==
  /\ cls[p] = "CVParserDocling"
  /\ Call(p, "extract_education", "", docling_extract_education(TextOf(p)))

\* Lines that hold the word Education inside other text.
L_it_education == <<"IT", SP, "Education">>
L_prose_education ==
  <<"Data", SP, "analysis", SP, "and", SP, "Education", ":", SP,
    "Bogazici", SP, "University">>

\* Lines of the education documents: the header in two spellings, a degree,
\* an institution, a period, a page footer, the header of the next section,
\* two lines that mention education.
EducationLines ==
  { L_education_colon, L_education, L_bachelor, L_university, L_year, L_page,
    L_experience, L_it_education, L_prose_education }

EducationDocs == { JoinLines(ls) : ls \in SeqsUpTo(EducationLines, MaxLines) }

InitEducation ==
  /\ pdf \in EducationDocs
  /\ Fresh({ (1 :> "CVParser") @@ (2 :> "CVParserDocling") })
  /\ Env({1}, {"text"})

NextEducation ==
  \E p \in Parsers :
    \/ CVParser_extract_education(p)
    \/ Docling_extract_education(p)

SpecEducation == InitEducation /\ [][NextEducation]_vars

\* C18: extract_education returns without an error, and every entry it
\* returns has a degree: a candidate made of period, institution or details
\* lines that no degree line precedes is not among the entries.
C18_EveryEntryHasDegree ==
  ret.op = "extract_education" =>
    /\ ret.exc = ""
    /\ \A k \in 1..Len(ret.val) : HasKey(ret.val[k], "degree")

-----------------------------------------------------------------------------
(* Properties of the Docling parser's text backends *)

\* The backend that gives a CVParserDocling object its text.
BackendNamed ==
  IF docling = "text" THEN "Docling" ELSE "PyMuPDF (Docling fallback)"

\* parse() of a CVParserDocling object has just ended.
DoclingParsed == ret.op = "parse" /\ cls[ret.obj] = "CVParserDocling"

-----------------------------------------------------------------------------
(* The date line of the company lookahead *)

\* Date lines that also hold a skip word: a page footer run into the line,
\* a certificate named before the dates.
L_date_page == L_date \o <<SP>> \o L_page
L_pmp_date == <<"PMP", SP>> \o L_date

\* The lines that hold a date range.
DatedLines == { L_date_duration, L_date, L_date_page, L_pmp_date }

\* What follows the date line.
DatedTails == { <<>>, <<L_location>>, <<L_date_duration>>, <<L_filler, L_date>> }

\* A company line, a title line, a line with a date range, a tail.
DatedDocs ==
  { JoinLines(<<c, t, d>> \o tail) :
      c \in CompanyLines, t \in TitleLines, d \in DatedLines, tail \in DatedTails }

InitLookahead ==
  /\ pdf \in DatedDocs
  /\ Fresh({ (1 :> "CVParser") @@ (2 :> "CVParserDocling") })
  /\ Env({1}, {"text"})

SpecLookahead == InitLookahead /\ [][NextExperience]_vars

\* C20: when the line after the title line of a company holds a date range,
\* the entry of the company has the period of that line, whether or not the
\* line holds a skip word as well.
C20_DateBeforeSkipWords ==
  (ret.op = "extract_experience" /\ cls[ret.obj] = "CVParser") =>
    LET ls == SplitLines(pdf)
    IN /\ Len(ret.val) = 1
       /\ ret.val[1].company = Str(ls[1])
       /\ ret.val[1].position = Str(ls[2])
       /\ ret.val[1].period = Str(period_of(ls[3]))

\* The line is the header of the section `name`: its trimmed content,
\* without a colon at its end, is the name in any letter case.
IsSectionHeader(line, name) ==
  LET t == LowerSeq(Strip(line))
  IN t = <<name>> \/ t = <<name, ":">>

\* C21: without a line that is the Education header as a whole,
\* extract_education finds no section and returns no entry: a line that
\* holds the word inside other text opens no section, for either parser.
C21_HeaderIsWholeLine ==
  (ret.op = "extract_education"
     /\ \A k \in 1..Len(SplitLines(pdf)) : ~IsSectionHeader(SplitLines(pdf)[k], "education"))
    => ret.val = <<>>

-----------------------------------------------------------------------------
(* Orphan titles of the whole-document scan *)

\* The most lines between an orphan title and its date line.
MaxGap == 5

\* What comes before the orphan title, with the company of the last entry
\* it gives (<<>> for none): nothing; a company with a title and a date; a
\* company with a date and no title, which gives no entry; the two one
\* after the other, in both orders.
Anchored(c) == <<c, L_finance_manager, L_date, L_location>>
Untitled(c) == <<c, L_date, L_location>>

\* Two company lines that differ.
CompanyPairs == { cd \in CompanyLines \X CompanyLines : cd[1] # cd[2] }

OrphanHeads ==
  { [lines |-> <<>>, company |-> <<>>] }
  \cup { [lines |-> Anchored(c), company |-> c] : c \in CompanyLines }
  \cup { [lines |-> Untitled(c), company |-> <<>>] : c \in CompanyLines }
  \cup { [lines |-> Anchored(cd[1]) \o Untitled(cd[2]), company |-> cd[1]] :
           cd \in CompanyPairs }
  \cup { [lines |-> Untitled(cd[1]) \o Anchored(cd[2]), company |-> cd[2]] :
           cd \in CompanyPairs }

\* Title lines that no company line precedes.
OrphanTitles == { L_senior_engineer, L_product_owner }

\* The head, the orphan title, gap neutral lines, a date line or none.
OrphanDoc(head, title, filler, gap, dated) ==
  JoinLines(head.lines \o <<title>> \o Repeat(filler, gap)
            \o (IF dated THEN <<L_date_duration>> ELSE <<>>))

\* The documents, each with what it was made of.
OrphanCases ==
  { [doc |-> OrphanDoc(head, title, filler, gap, dated), head |-> head,
     title |-> title, gap |-> gap, dated |-> dated] :
      head \in OrphanHeads, title \in OrphanTitles, filler \in NeutralLines,
      gap \in 0..MaxGap, dated \in BOOLEAN }

OrphanDocs == { case.doc : case \in OrphanCases }

InitOrphan ==
  /\ pdf \in OrphanDocs
  /\ Fresh({ (1 :> "CVParser") @@ (2 :> "CVParserDocling") })
  /\ Env({1}, {"text"})

SpecOrphan == InitOrphan /\ [][NextExperience]_vars

\* The entries of the orphan titles among the entries returned.
OrphanEntries ==
  SelectSeq(ret.val, LAMBDA e : e.position \in { Str(t) : t \in OrphanTitles })

\* CVParser.extract_experience has just returned.
Scanned == ret.op = "extract_experience" /\ cls[ret.obj] = "CVParser"

\* C22: an orphan title gives an entry only if a date range stands within
\* the 5 lines after it and a company-anchored entry was given before it;
\* the entry has the company of the last company-anchored entry, and never
\* that of a company line that gave no entry.
C22_OrphanTakesLastCompany ==
  Scanned =>
    \A case \in OrphanCases :
      (pdf = case.doc /\ OrphanEntries # <<>>) =>
        /\ case.dated
        /\ case.gap + 1 <= 5
        /\ case.head.company # <<>>
        /\ Len(OrphanEntries) = 1
        /\ OrphanEntries[1].company = Str(case.head.company)
        /\ OrphanEntries[1].position = Str(case.title)
        /\ OrphanEntries[1].period = Str(period_of(L_date_duration))

\* An orphan title took the company of the entry before it although a
\* company line without an entry stands between them.
C22_Witness_SkipsUntitledCompany ==
  /\ Scanned
  /\ Len(SplitLines(pdf)) >= 5
  /\ \E cd \in CompanyPairs :
       /\ SplitLines(pdf)[1] = cd[1]
       /\ SplitLines(pdf)[5] = cd[2]
       /\ Len(ret.val) = 2
       /\ ret.val[1].company = Str(cd[1])
       /\ ret.val[2].company = Str(cd[1])
       /\ ret.val[2].position \in { Str(t) : t \in OrphanTitles }

\* Lines 473-477: the line is taken as the title in the company lookahead.
TitleInLookahead(line) ==
  /\ StrLen(line) > 5
  /\ AnyIn(lookahead_roles, LowerSeq(line))
  /\ ~AnyIn(company_keywords, line)

\* C23: a line that the company lookahead takes as a title is taken as an
\* orphan title too: standing after an anchored entry with a date range on
\* one of the lines the orphan lookahead reads, it gives an entry.
C23_SameRoleKeywords ==
  Scanned =>
    \A case \in OrphanCases :
      (/\ pdf = case.doc
       /\ case.dated
       /\ case.gap + 1 < OrphanWindow
       /\ case.head.company # <<>>
       /\ TitleInLookahead(case.title))
        => \E k \in 1..Len(ret.val) :
             /\ ret.val[k].position = Str(case.title)
             /\ ret.val[k].company = Str(case.head.company)

-----------------------------------------------------------------------------
(* The lines read under a Skills header *)

\* The numbers of items of the tall lists of the documents.
TallSizes == { 8, 9, 10, 11, 12 }

\* C24: under a Skills header followed by a line of three items and one
\* item to a line after it, no skill comes from the 11th line of the
\* section or from a later one: item 10 stands on the 11th line.
C24_TenLinesOfSkills ==
  ret.op = "extract_skills" =>
    \A n \in TallSizes :
      pdf = TallList(L_skills, L_spoken, n) =>
        \A j \in 1..Len(ret.val), k \in 10..n : ret.val[j] # ToolLine(k, k)

\* C25: no entry of the list extract_languages returns is, in any letter
\* case, one of the programming-language tokens, for either parser.
C25_NoProgrammingLanguage ==
  ret.op = "extract_languages" =>
    \A k \in 1..Len(ret.val), n \in 1..Len(programming_langs) :
      LowerSeq(ret.val[k]) # programming_langs[n]

-----------------------------------------------------------------------------
(* The summary and its word cap *)

CVParser_extract_summary(p) ==
  /\ cls[p] = "CVParser"
  /\ Call(p, "extract_summary", "", extract_summary(TextOf(p)))

Docling_extract_summary(p) ==
  /\ cls[p] = "CVParserDocling"
  /\ Call(p, "extract_summary", "", extract_summary(TextOf(p)))

\* A line of n words that begins with `first` and goes on with `word`.
WordsLine(first, word, n) ==
  <<first>> \o Flat([k \in 1..(n - 1) |-> <<SP, word>>])

\* The lines that start the capture: a short one, and lines of 50, 51 and
\* 52 words.
TriggerLines ==
  { L_profile } \cup { WordsLine("Certified", "engineer", n) : n \in {50, 51, 52} }

\* The lines that follow: lines the summary takes, of 4, 4, 43 and 44
\* words, and a header that ends it.
FollowLines ==
  { L_filler, L_team, WordsLine("Budget", "planning", 43),
    WordsLine("Budget", "planning", 44), L_skills }

\* The documents, each with what it was made of.
SummaryCases ==
  { [doc |-> JoinLines(<<trigger>> \o tail), trigger |-> trigger, tail |-> tail] :
      trigger \in TriggerLines, tail \in SeqsUpTo(FollowLines, MaxLines) }

SummaryDocs == { case.doc : case \in SummaryCases }

InitSummary ==
  /\ pdf \in SummaryDocs
  /\ Fresh({ (1 :> "CVParser") @@ (2 :> "CVParserDocling") })
  /\ Env({1}, {"text"})

NextSummary ==
  \E p \in Parsers :
    \/ CVParser_extract_summary(p)
    \/ Docling_extract_summary(p)

SpecSummary == InitSummary /\ [][NextSummary]_vars

\* The words of the trigger line and of the first j lines after it.
Accumulated(case, j) ==
  WordCount(<<case.trigger>> \o SubSeq(case.tail, 1, j))

\* C26: the summary ends with the line that takes its word count over 50:
\* when the summary holds the trigger line and the j lines after it, the
\* lines before the last of them hold 50 words at most, and this when the
\* trigger line alone has more than 50 words too.
C26_StopsAfterFiftyWords ==
  ret.op = "extract_summary" =>
    \A case \in SummaryCases :
      pdf = case.doc =>
        \A j \in 1..Len(case.tail) :
          Len(Words(ret.val)) = Accumulated(case, j) =>
            Accumulated(case, j - 1) <= 50

-----------------------------------------------------------------------------
(* The line the location is taken from *)

\* The line holds the name that extract_name returns, an "@" or a "+".
HoldsNameOrAddress(line, name) ==
  \/ name # <<>> /\ Occurs(name, line)
  \/ Count(line, "@") > 0
  \/ Count(line, "+") > 0

\* C27: the location that extract_contact_info returns stands in one of the
\* first twenty lines that holds neither the extracted name, nor an "@",
\* nor a "+"; it is never the name itself.
C27_LocationNotFromNameLine ==
  (ret.op = "extract_contact_info" /\ HasKey(ret.val, "location")) =>
    LET ls == SplitLines(pdf)
        name == extract_name(pdf)
    IN /\ ret.val.location # name
       /\ \E k \in 1..Len(ls) :
            /\ k <= LocationLines
            /\ Occurs(ret.val.location, ls[k])
            /\ ~HoldsNameOrAddress(ls[k], name)

-----------------------------------------------------------------------------
(* The turns of the whole-document scan *)

\* The lines the turns of the scan stand at, in their order.
Turns(lines) == Scan(lines, 1, <<>>, <<>>, <<>>).visited

\* The line the turn after turn k stands at, the end of the lines when k
\* is the last turn.
Resumed(turns, k, lines) ==
  IF k < Len(turns) THEN turns[k + 1] ELSE Len(lines) + 1

\* The turn at line i takes the company branch.
CompanyTurn(lines, i) ==
  LET line == Strip(lines[i])
  IN /\ ~(line = <<>> \/ StrLen(line) < 3)
     /\ ~AnyIn(skip_words, LowerSeq(line))
     /\ is_company(line)

\* What the turn at line i does: whether it takes the company branch, the
\* line it can take the position of an entry from (the line its company
\* lookahead read the position from, 0 when it read none; line i itself in
\* the other branches) and the line its company lookahead ends at.
Turn(lines, i) ==
  IF CompanyTurn(lines, i)
  THEN LET la == Lookahead(lines, i, i + 1, <<>>, 0)
       IN [company |-> TRUE, title |-> la.title, j |-> la.j]
  ELSE [company |-> FALSE, title |-> i, j |-> i + 1]

\* C28: the scan of a document ends, and every turn of its loop stands at
\* a later line than the turn before, also after a company lookahead or an
\* orphan lookahead has moved the index: no line is stood at twice, and no
\* line gives the position of two entries.
C28_ScanAdvances ==
  Scanned =>
    LET lines == SplitLines(pdf)
        turns == Turns(lines)
        done == { <<k, Turn(lines, turns[k])>> : k \in 1..Len(turns) }
    IN /\ \A k \in 1..Len(turns) :
            /\ turns[k] \in 1..Len(lines)
            /\ turns[k] < Resumed(turns, k, lines)
       /\ \A t \in done :
            /\ t[2].title # 0 =>
                 /\ turns[t[1]] <= t[2].title
                 /\ t[2].title < Resumed(turns, t[1], lines)
                 /\ \A u \in done : u[1] # t[1] => u[2].title # t[2].title
            /\ t[2].company => Resumed(turns, t[1], lines) = t[2].j
       /\ Len(ret.val) <= Len(turns)

\* A scan with two entries in which a company lookahead and an orphan
\* lookahead each moved the index past more than one line.
C28_Witness_BothLookaheadsMoved ==
  /\ Scanned
  /\ Len(ret.val) = 2
  /\ LET lines == SplitLines(pdf)
         turns == Turns(lines)
     IN \E k \in 1..Len(turns), m \in 1..Len(turns) :
          /\ Turn(lines, turns[k]).company
          /\ Turn(lines, turns[k]).title > turns[k]
          /\ Resumed(turns, k, lines) > turns[k] + 1
          /\ ~Turn(lines, turns[m]).company
          /\ lines[turns[m]] \in OrphanTitles
          /\ Resumed(turns, m, lines) > turns[m] + 1

-----------------------------------------------------------------------------
(* The stored text of a parser object *)

\* The last call was made on object p, which has read the document by then.
HasRead(p) == ret.obj = p

\* C29: an object that has read the document does not read it again, the
\* call that follows uses the text the object stores, also when that text
\* is empty; and no call changes a text that is stored.
C29_TextReadOnce ==
  [][\A p \in Parsers :
       /\ (HasRead(p) /\ ret'.obj = p) => ~Reads(p)
       /\ full_text[p] # <<>> => full_text'[p] = full_text[p]]_vars

-----------------------------------------------------------------------------
(* The names of the artifacts of one request *)

\* A PDF name whose extension is in capitals.
F_capitals == <<"cv", ".", "PDF">>

\* One request, of any kind, for a file sent as cv.pdf or as cv.PDF.
InitNames ==
  /\ pdf = <<>>
  /\ Objects({ [p \in Parsers |-> "CVParser"] })
  /\ Env({2}, {"text"})
  /\ uploads = EmptyDict
  /\ results = EmptyDict
  /\ \E f \in { F_cv, F_capitals }, o \in Options :
       req = (1 :> Request(f, U_two, "original", o)) @@ (2 :> NoRequest)

SpecNames == InitNames /\ [][NextUpload]_vars

\* The extracted record, the metadata and the rendering.
ArtifactSuffixes == { "_extracted.json", "_metadata.json", "_extracted.md" }

\* No other request is being served.
Alone(r) == \A q \in Requests \ {r} : req[q] = NoRequest

\* C30: for a file name the endpoint accepts, whatever the case of the
\* letters of its extension, the artifacts of a request have names that
\* differ from one another, and the metadata are not written over the
\* extracted record.
C30_ArtifactNamesDistinct ==
  \A r \in Requests :
    (req[r].file # <<>> /\ allowed_file(req[r].file) /\ req[r].wrote # {}) =>
      /\ \A s \in ArtifactSuffixes, t \in ArtifactSuffixes :
           s # t => Artifact(r, s) # Artifact(r, t)
      /\ ("_metadata.json" \in req[r].wrote /\ Alone(r)) =>
           results[Artifact(r, "_extracted.json")].content = req[r].output_data

====
